---- MODULE Spec2Model ----
(***************************************************************************)
(* AI Learning Coach: the session memory (memory_manager.py), the tool     *)
(* router (learning_tools.py) and the chat turn (app.py).                  *)
(*                                                                         *)
(* Texts are TLA+ strings; Python's `kw in s`, s.lower(), s[:n] and s[-n:] *)
(* are computed character by character / element by element.              *)
(***************************************************************************)
EXTENDS Integers, Sequences, FiniteSets, TLC

VARIABLES
    interactions,       \* st.session_state["learning_memory"]["interactions"]
    learning_patterns,  \* st.session_state["learning_memory"]["learning_patterns"]
    clock,              \* the datetime.now() of the latest recorded interaction, in
                        \* seconds since construction / clear_memory (only
                        \* differences of stored timestamps are ever read)
    feed,               \* the input events a caller of MemoryManager repeats, in order
    fpos,               \* index in feed of the next input event
    added,              \* history: interactions recorded since construction / clear_memory
    hist,               \* history: those interactions, in the order they were built
    last_op,            \* history: the last MemoryManager call and how it ended
    messages,           \* st.session_state.messages
    profile,            \* st.session_state.learning_profile
    pc,                 \* where the script run in progress stands
    turn,               \* the locals of the chat turn in progress
    calls,              \* history: the LLM requests of the turn, in order
    replies,            \* history: what the LLM capability answered to each of them
    invoked,            \* history: the registry strategies the turn invoked, in order
    turns,              \* history: chat turns begun
    damage,             \* what is wrong with st.session_state["learning_memory"]
                        \* ("none": it is as the MemoryManager left it)
    probe,              \* history: the last call of a read accessor or of an
                        \* annotator, and what it returned
    quick               \* history: the last on-demand action of the sidebar and
                        \* what it showed

memvars == <<interactions, learning_patterns, clock, added, hist, last_op, damage>>
feedvars == <<feed, fpos>>
readvars == <<probe, quick>>
appvars == <<messages, profile, pc, turn, calls, replies, invoked, turns, readvars>>
vars == <<memvars, feedvars, appvars>>

-----------------------------------------------------------------------------
(* Python primitives *)

Min(a, b) == IF a < b THEN a ELSE b

\* s[:n]
FirstN(s, n) == SubSeq(s, 1, Min(n, Len(s)))

\* s[-n:]
LastN(s, n) == SubSeq(s, Len(s) - Min(n, Len(s)) + 1, Len(s))

\* the upper-case letters and their lower-case forms
LowerOf ==
    "A" :> "a" @@ "B" :> "b" @@ "C" :> "c" @@ "D" :> "d" @@ "E" :> "e" @@ "F" :> "f" @@
    "G" :> "g" @@ "H" :> "h" @@ "I" :> "i" @@ "J" :> "j" @@ "K" :> "k" @@ "L" :> "l" @@
    "M" :> "m" @@ "N" :> "n" @@ "O" :> "o" @@ "P" :> "p" @@ "Q" :> "q" @@ "R" :> "r" @@
    "S" :> "s" @@ "T" :> "t" @@ "U" :> "u" @@ "V" :> "v" @@ "W" :> "w" @@ "X" :> "x" @@
    "Y" :> "y" @@ "Z" :> "z"

LowerChar(c) == IF c \in DOMAIN LowerOf THEN LowerOf[c] ELSE c

\* str.lower()
RECURSIVE Lower(_)
Lower(s) ==
    IF Len(s) = 0 THEN ""
    ELSE LowerChar(SubSeq(s, 1, 1)) \o Lower(SubSeq(s, 2, Len(s)))

\* kw in s   (substring test)
Contains(kw, s) ==
    \E i \in 1..(Len(s) - Len(kw) + 1) : SubSeq(s, i, i + Len(kw) - 1) = kw

\* sum(1 for kw in kws if kw in s)
Hits(kws, s) == Len(SelectSeq(kws, LAMBDA kw : Contains(kw, s)))

\* any(kw in s for kw in kws)
AnyIn(kws, s) == \E i \in 1..Len(kws) : Contains(kws[i], s)

-----------------------------------------------------------------------------
(* QueryAnnotator: MemoryManager._extract_topics, _estimate_difficulty,    *)
(* _identify_subject, _classify_question_type                              *)

math_keywords ==
    <<"equation", "algebra", "geometry", "calculus", "trigonometry",
      "statistics", "probability", "derivative", "integral", "formula">>

science_keywords ==
    <<"physics", "chemistry", "biology", "atom", "molecule",
      "cell", "force", "energy", "reaction", "evolution">>

language_keywords ==
    <<"grammar", "essay", "writing", "literature", "poem",
      "analysis", "thesis", "paragraph", "vocabulary">>

history_keywords ==
    <<"war", "revolution", "empire", "civilization", "timeline",
      "ancient", "medieval", "modern", "century">>

all_keywords ==
    math_keywords \o science_keywords \o language_keywords \o history_keywords

_extract_topics_NoLimit(query) ==
    SelectSeq(all_keywords, LAMBDA kw : Contains(kw, Lower(query)))

_extract_topics(query) ==
    LET query_lower == Lower(query)
        topics == SelectSeq(all_keywords, LAMBDA kw : Contains(kw, query_lower))
    IN  FirstN(topics, 3)

advanced_indicators ==
    <<"advanced", "complex", "analyze", "evaluate", "synthesize",
      "derivative", "integral", "quantum", "molecular", "theorem">>

basic_indicators_NoExplain ==
    <<"what is", "how to", "simple", "basic", "introduction">>

basic_indicators ==
    <<"what is", "how to", "explain", "simple", "basic", "introduction">>

_estimate_difficulty_TieAdvanced(query) ==
    LET query_lower == Lower(query)
        advanced_count == Hits(advanced_indicators, query_lower)
        basic_count == Hits(basic_indicators, query_lower)
    IN  IF advanced_count >= basic_count /\ advanced_count > 0 THEN "advanced"
        ELSE IF basic_count > 0 THEN "beginner"
        ELSE "intermediate"

_estimate_difficulty(query) ==
    LET query_lower == Lower(query)
        advanced_count == Hits(advanced_indicators, query_lower)
        basic_count == Hits(basic_indicators, query_lower)
    IN  IF advanced_count > basic_count THEN "advanced"
        ELSE IF basic_count > 0 THEN "beginner"
        ELSE "intermediate"

\* the dict literal, in insertion order
subject_keywords ==
    << <<"Mathematics", <<"math", "algebra", "geometry", "calculus", "equation", "formula", "solve">> >>,
       <<"Physics", <<"physics", "force", "energy", "momentum", "wave", "electricity", "magnetism">> >>,
       <<"Chemistry", <<"chemistry", "atom", "molecule", "reaction", "compound", "element">> >>,
       <<"Biology", <<"biology", "cell", "DNA", "evolution", "organism", "genetics", "anatomy">> >>,
       <<"Computer Science", <<"programming", "code", "algorithm", "software", "computer", "python", "java">> >>,
       <<"English", <<"essay", "writing", "grammar", "literature", "poem", "analysis", "thesis">> >>,
       <<"History", <<"history", "war", "empire", "revolution", "ancient", "medieval", "timeline">> >>,
       <<"Geography", <<"geography", "map", "climate", "country", "continent", "ocean", "mountain">> >>,
       <<"Art", <<"art", "painting", "sculpture", "artist", "museum", "drawing", "design">> >>,
       <<"Music", <<"music", "note", "chord", "rhythm", "melody", "instrument", "composer">> >> >>

\* max(d.items(), key=lambda x: x[1])[0] on a dict given as its
\* (key, count) pairs in insertion order: the first pair with the largest count
MaxKey(items) ==
    LET best == CHOOSE i \in 1..Len(items) :
                    /\ \A j \in 1..Len(items) : items[j][2] <= items[i][2]
                    /\ \A j \in 1..(i - 1) : items[j][2] < items[i][2]
    IN  items[best][1]

_identify_subject_NoDefault(query) ==
    LET query_lower == Lower(query)
        scored == [i \in 1..Len(subject_keywords) |->
                      <<subject_keywords[i][1], Hits(subject_keywords[i][2], query_lower)>>]
        subject_scores == SelectSeq(scored, LAMBDA p : p[2] > 0)
    IN  IF Len(subject_scores) > 0 THEN MaxKey(subject_scores) ELSE ""

_identify_subject(query) ==
    LET query_lower == Lower(query)
        scored == [i \in 1..Len(subject_keywords) |->
                      <<subject_keywords[i][1], Hits(subject_keywords[i][2], query_lower)>>]
        subject_scores == SelectSeq(scored, LAMBDA p : p[2] > 0)
    IN  IF Len(subject_scores) > 0 THEN MaxKey(subject_scores) ELSE "General"

_classify_question_type_ConceptualFirst(query) ==
    LET query_lower == Lower(query)
    IN  IF AnyIn(<<"explain", "what is", "how does", "why">>, query_lower) THEN "conceptual"
        ELSE IF AnyIn(<<"solve", "calculate", "find", "compute">>, query_lower) THEN "problem_solving"
        ELSE IF AnyIn(<<"analyze", "compare", "evaluate", "discuss">>, query_lower) THEN "analytical"
        ELSE IF AnyIn(<<"help", "check", "review", "feedback">>, query_lower) THEN "assistance"
        ELSE "general"

_classify_question_type(query) ==
    LET query_lower == Lower(query)
    IN  IF AnyIn(<<"solve", "calculate", "find", "compute">>, query_lower) THEN "problem_solving"
        ELSE IF AnyIn(<<"explain", "what is", "how does", "why">>, query_lower) THEN "conceptual"
        ELSE IF AnyIn(<<"analyze", "compare", "evaluate", "discuss">>, query_lower) THEN "analytical"
        ELSE IF AnyIn(<<"help", "check", "review", "feedback">>, query_lower) THEN "assistance"
        ELSE "general"

-----------------------------------------------------------------------------
(* The queries of this model, and the annotators tabulated over them.  The  *)
(* annotators are pure, so a call is read off the table; TLC evaluates the  *)
(* table once instead of rescanning the query in every step.                *)

Queries ==
    {"Solve the equation",
     "Explain how cellular respiration works",
     "Evaluate the theorem",
     "Help me review algebra, geometry, calculus and statistics",
     "I need help with algebra"}

Annotations ==
    [query \in Queries |->
        [topics |-> _extract_topics(query),
         difficulty |-> _estimate_difficulty(query),
         subject |-> _identify_subject(query),
         question_type |-> _classify_question_type(query)]]

-----------------------------------------------------------------------------
(* InteractionStore: MemoryManager *)

max_interactions == 50

difficulty_values(d) ==
    CASE d = "beginner" -> 1
      [] d = "intermediate" -> 2
      [] d = "advanced" -> 3

\* dict.get(key, default)
Get(d, key, default) == IF key \in DOMAIN d THEN d[key] ELSE default

\* d[key] = value
Put(d, key, value) == [k \in DOMAIN d \cup {key} |-> IF k = key THEN value ELSE d[k]]

\* the {} of learning_patterns
EmptyDict == [k \in {} |-> {}]

\* The places of add_interaction at which an exception is taken into account.
\* "none": the call runs to its end.
FaultPoints ==
    {"load",               \* line 25: reading the session entry raises
     "annotate",           \* lines 31-33: an annotator raises
     "append",             \* line 37: the append raises
     "evict",              \* lines 40-41: the eviction raises
     "classify",           \* line 231: the classifier raises
     "type_append",        \* line 235: appending the question type raises
     "type_trim",          \* line 236: keeping the last 10 types raises
     "difficulty",         \* lines 239-240: reading the difficulty list raises
     "difficulty_append",  \* line 242: appending the difficulty raises
     "difficulty_trim",    \* line 243: keeping the last 10 difficulties raises
     "trend",              \* lines 246-256: computing the trend raises
     "store"}              \* lines 258-259: writing the patterns back raises

\* lines 247-256: the trend of the last three samples
difficulty_trend_FromMiddle(difficulty_history) ==
    LET recent_difficulties == LastN(difficulty_history, 3)
        scores == [i \in 1..Len(recent_difficulties) |->
                      difficulty_values(recent_difficulties[i])]
    IN  IF scores[Len(scores)] > scores[2] THEN "increasing"
        ELSE IF scores[Len(scores)] < scores[2] THEN "decreasing"
        ELSE "stable"

difficulty_trend(difficulty_history) ==
    LET recent_difficulties == LastN(difficulty_history, 3)
        scores == [i \in 1..Len(recent_difficulties) |->
                      difficulty_values(recent_difficulties[i])]
    IN  IF scores[Len(scores)] > scores[1] THEN "increasing"
        ELSE IF scores[Len(scores)] < scores[1] THEN "decreasing"
        ELSE "stable"

\* line 246: a trend is computed once three samples are there
TrendDue_FromTwo(difficulty_history) == Len(difficulty_history) >= 2

TrendDue(difficulty_history) == Len(difficulty_history) >= 3

\* lines 232-233 and 239-240: create the list if it is missing
Created(patterns, key) ==
    IF key \in DOMAIN patterns THEN patterns ELSE Put(patterns, key, <<>>)

\* lines 235 and 242: append to the list
Appended(patterns, key, value) ==
    LET p == Created(patterns, key)
    IN  Put(p, key, Append(p[key], value))

\* lines 232-236 and 239-243: create the list if missing, append, keep the last 10
Track_KeepFirst(patterns, key, value) ==
    Put(patterns, key, FirstN(Append(Get(patterns, key, <<>>), value), 10))

Track(patterns, key, value) ==
    Put(patterns, key, LastN(Append(Get(patterns, key, <<>>), value), 10))

\* _update_learning_patterns: the patterns dict is updated in place, key by
\* key, so an exception at `fault` keeps the assignments made before it; the
\* method's own try/except swallows it.
_update_learning_patterns(patterns, interaction, fault) ==
    IF fault = "classify" THEN patterns
    ELSE
    LET query_type == Annotations[interaction.user_query].question_type
        p1 == Track(patterns, "preferred_question_types", query_type)
    IN  IF fault = "type_append" THEN Created(patterns, "preferred_question_types")
        ELSE IF fault = "type_trim"
             THEN Appended(patterns, "preferred_question_types", query_type)
        ELSE IF fault = "difficulty" THEN p1
        ELSE IF fault = "difficulty_append" THEN Created(p1, "difficulty_history")
        ELSE IF fault = "difficulty_trim"
             THEN Appended(p1, "difficulty_history", interaction.difficulty)
        ELSE
        LET p2 == Track(p1, "difficulty_history", interaction.difficulty)
        IN  IF fault = "trend" THEN p2
            ELSE IF TrendDue(p2["difficulty_history"])
                 THEN Put(p2, "difficulty_trend", difficulty_trend(p2["difficulty_history"]))
                 ELSE p2

\* lines 27-34
NewInteraction(user_query, ai_response, now) ==
    [timestamp |-> now,
     user_query |-> user_query,
     ai_response |-> ai_response,
     topics |-> Annotations[user_query].topics,
     difficulty |-> Annotations[user_query].difficulty,
     subject |-> Annotations[user_query].subject]

\* lines 36-41: append, then keep the last max_interactions
Record_NoEviction(log, interaction) == Append(log, interaction)

Record_EvictNewest(log, interaction) ==
    LET appended == Append(log, interaction)
    IN  IF Len(appended) > max_interactions
        THEN FirstN(appended, max_interactions)
        ELSE appended

Record(log, interaction) ==
    LET appended == Append(log, interaction)
    IN  IF Len(appended) > max_interactions
        THEN LastN(appended, max_interactions)
        ELSE appended

\* add_interaction as a function of the memory before the call: the memory
\* after it, and the interaction it recorded (if any).  The memory dict is
\* mutated in place, so what was done before an exception stays done; the
\* outer except clause only passes.
add_interaction(log, patterns, user_query, ai_response, now, fault) ==
    IF fault \in {"load", "annotate", "append"}
    THEN [interactions |-> log, learning_patterns |-> patterns, recorded |-> <<>>]
    ELSE LET interaction == NewInteraction(user_query, ai_response, now)
         IN  IF fault = "evict"
             THEN [interactions |-> Append(log, interaction),
                   learning_patterns |-> patterns,
                   recorded |-> <<interaction>>]
             ELSE
             [interactions |-> Record(log, interaction),
              learning_patterns |-> _update_learning_patterns(patterns, interaction, fault),
              recorded |-> <<interaction>>]

-----------------------------------------------------------------------------
(* The callers of MemoryManager: what they pass to add_interaction *)

MaxPeriod == 3      \* the longest input pattern a caller repeats
MaxAdds == 56       \* interactions recorded between two clear_memory calls

\* An input event: the query and response passed to add_interaction, and the
\* seconds gone by since the latest recorded interaction.
Events ==
    {[user_query |-> "Solve the equation", ai_response |-> "x = 3", dt |-> 45],
     [user_query |-> "Explain how cellular respiration works", ai_response |-> "Cells ...", dt |-> 0],
     [user_query |-> "Evaluate the theorem", ai_response |-> "It holds.", dt |-> 3600],
     [user_query |-> "Help me review algebra, geometry, calculus and statistics",
      ai_response |-> "Start with ...", dt |-> 20]}

Feeds == UNION {[1..n -> Events] : n \in 1..MaxPeriod}

\* None is <<>>, a value v that may be None is <<v>>
None == <<>>

\* no chat turn in progress
NoTurn == [query |-> "", dt |-> 0, learning_context |-> "",
           tool_response |-> None, response |-> None]

\* no read accessor or annotator has been called
NoProbe == [op |-> "", arg |-> "", fault |-> "none", result |-> None, raised |-> FALSE]

\* no on-demand action has run
NoQuick == [action |-> "", shown |-> "", text |-> "", runs |-> 0]

\* app.py lines 12-20
InitApp ==
    /\ messages = <<>>
    /\ profile = [preferred_subjects |-> <<>>, learning_level |-> "intermediate",
                  study_goals |-> <<>>]
    /\ pc = "idle"
    /\ turn = NoTurn
    /\ calls = <<>>
    /\ replies = <<>>
    /\ invoked = <<>>
    /\ turns = 0
    /\ probe = NoProbe
    /\ quick = NoQuick

\* MemoryManager.__init__ on a new session
InitMemory ==
    /\ interactions = <<>>
    /\ learning_patterns = EmptyDict
    /\ clock = 0
    /\ added = 0
    /\ hist = <<>>
    /\ last_op = [op |-> "__init__", fault |-> "none", raised |-> FALSE]
    /\ damage = "none"

Init ==
    /\ InitMemory
    /\ InitApp
    /\ feed \in Feeds
    /\ fpos = 1

\* add_interaction(user_query, ai_response) at time `now`, an exception being
\* raised inside it at `fault` ("none": no exception).  The except clause of
\* line 49 catches every Exception, so the call returns normally.
\* what can be wrong with st.session_state["learning_memory"]:
\*   no_memory          the key is gone (KeyError at lines 25, 56, 100, 307)
\*   no_interactions    the entry has no "interactions" (KeyError at lines 37,
\*                      57, 101, 308)
\*   none_interactions  "interactions" is None: the append of line 37, the
\*                      slice of line 57 and the loop of line 311 raise, the
\*                      test of line 103 does not
\*   bad_entry          an interaction is no dict (AttributeError at lines
\*                      69, 108, 312 when it is read)
\*   empty_entry        an interaction is {}: every get() answers with its
\*                      default, ["timestamp"] (lines 125, 126) raises
\*                      KeyError when it is evaluated
Damages == {"no_memory", "no_interactions", "bad_entry", "none_interactions",
            "empty_entry"}

\* what stands in the interaction list for a damaged interaction
BadEntry == [entry |-> "not a dict"]

EmptyEntry == [entry |-> "{}"]

IsBad(interaction) == "entry" \in DOMAIN interaction /\ interaction.entry = "not a dict"

IsEmpty(interaction) == "entry" \in DOMAIN interaction /\ interaction.entry = "{}"

\* the statement of add_interaction that raises on a damaged memory: the
\* list is appended to whatever its entries are
DamageFault(dmg) ==
    IF dmg = "no_memory" THEN "load"
    ELSE IF dmg \in {"no_interactions", "none_interactions"} THEN "append"
    ELSE "none"

DoAddInteraction(user_query, ai_response, now, fault) ==
    LET m == add_interaction(interactions, learning_patterns,
                             user_query, ai_response, now, fault)
    IN  /\ interactions' = m.interactions
        /\ learning_patterns' = m.learning_patterns
        /\ clock' = IF m.recorded # <<>> THEN now ELSE clock
        /\ added' = added + Len(m.recorded)
        /\ hist' = hist \o m.recorded
        /\ last_op' = [op |-> "add_interaction", fault |-> fault, raised |-> FALSE]
        /\ damage' = IF /\ damage \in {"bad_entry", "empty_entry"}
                        /\ \A i \in 1..Len(m.interactions) :
                              ~IsBad(m.interactions[i]) /\ ~IsEmpty(m.interactions[i])
                     THEN "none"    \* the damaged interaction has been evicted
                     ELSE damage

\* a caller adds the next event of its feed
AddInteraction ==
    /\ added < MaxAdds
    /\ LET ev == feed[fpos]
       IN  DoAddInteraction(ev.user_query, ev.ai_response, clock + ev.dt,
                            DamageFault(damage))
    /\ fpos' = (fpos % Len(feed)) + 1
    /\ UNCHANGED <<feed, appvars>>

\* clear_memory()
ClearMemory_KeepPatterns ==
    /\ interactions' = <<>>
    /\ clock' = 0
    /\ added' = 0
    /\ hist' = <<>>
    /\ last_op' = [op |-> "clear_memory", fault |-> "none", raised |-> FALSE]
    /\ damage' = "none"
    /\ UNCHANGED <<learning_patterns, feedvars, appvars>>

ClearMemory ==
    /\ interactions' = <<>>
    /\ learning_patterns' = EmptyDict
    /\ clock' = 0
    /\ added' = 0
    /\ hist' = <<>>
    /\ last_op' = [op |-> "clear_memory", fault |-> "none", raised |-> FALSE]
    /\ damage' = "none"
    /\ UNCHANGED <<feedvars, appvars>>

Next == AddInteraction \/ ClearMemory

Spec == Init /\ [][Next]_vars

-----------------------------------------------------------------------------
(* add_interaction with exceptions raised inside it *)

MaxFaultAdds == 4   \* interactions recorded in a run with exceptions
MaxFaultRun == 52   \* interactions recorded in a run that fills the memory

InitFault == Init /\ Len(feed) = 1

\* an exception is raised at `fault` while add_interaction runs: "annotate" is
\* what a user_query without lower() (None, a number) does at line 31; the
\* other points stand for exceptions of the statements themselves.  The
\* exceptions are drawn while the memory is young and again once it is full,
\* where the eviction has something to do.
AddInteractionFault ==
    /\ \/ added < MaxFaultAdds
       \/ Len(interactions) >= max_interactions /\ added < MaxFaultRun
    /\ \E fault \in FaultPoints :
          LET ev == feed[fpos]
          IN  DoAddInteraction(ev.user_query, ev.ai_response, clock + ev.dt, fault)
    /\ fpos' = (fpos % Len(feed)) + 1
    /\ UNCHANGED <<feed, appvars>>

AddInteractionShort == added < MaxFaultAdds /\ AddInteraction

AddInteractionRun == added < MaxFaultRun /\ AddInteraction

NextFault == AddInteractionRun \/ AddInteractionFault \/ ClearMemory

SpecFault == InitFault /\ [][NextFault]_vars

-----------------------------------------------------------------------------
(* get_learning_context *)

\* sep.join(seq)
RECURSIVE Join(_, _)
Join(seq, sep) ==
    IF Len(seq) = 0 THEN ""
    ELSE IF Len(seq) = 1 THEN seq[1]
    ELSE seq[1] \o sep \o Join(Tail(seq), sep)

\* list.extend over a list of lists
RECURSIVE Concat(_)
Concat(seqs) == IF Len(seqs) = 0 THEN <<>> ELSE seqs[1] \o Concat(Tail(seqs))

\* set(seq)
SetOf(seq) == {seq[i] : i \in 1..Len(seq)}

\* list(set(...)) lists the elements in an order the language leaves open
Orders(S) == {o \in [1..Cardinality(S) -> S] : SetOf(o) = S}

\* the dict built by `d[k] = d.get(k, 0) + 1` over seq, as its (key, count)
\* pairs in insertion order
RECURSIVE CountItems(_)
CountItems(seq) ==
    IF Len(seq) = 0 THEN <<>>
    ELSE LET front == CountItems(SubSeq(seq, 1, Len(seq) - 1))
             k == seq[Len(seq)]
         IN  IF \E i \in 1..Len(front) : front[i][1] = k
             THEN [i \in 1..Len(front) |->
                      IF front[i][1] = k THEN <<k, front[i][2] + 1>> ELSE front[i]]
             ELSE Append(front, <<k, 1>>)

\* lines 57, 68-69: the topics of the last 5 interactions
recent_topics_WholeLog(log) == Concat([i \in 1..Len(log) |-> log[i].topics])

recent_topics(log) ==
    LET recent_interactions == LastN(log, 5)
    IN  Concat([i \in 1..Len(recent_interactions) |-> recent_interactions[i].topics])

\* lines 57, 68-71: the subjects of the last 5 interactions
recent_subjects(log) ==
    LET recent_interactions == LastN(log, 5)
    IN  SelectSeq([i \in 1..Len(recent_interactions) |-> recent_interactions[i].subject],
                  LAMBDA subject : subject # "")

\* get_learning_context(); topic_order is the order in which list(set(...))
\* lists the recent topics
get_learning_context(log, patterns, topic_order) ==
    IF Len(LastN(log, 5)) = 0
    THEN "No previous learning interactions in this session."
    ELSE
    LET topics_part ==
            IF Len(recent_topics(log)) > 0
            THEN <<"Recent topics: " \o Join(topic_order, ", ")>> ELSE <<>>
        subject_part ==
            IF Len(recent_subjects(log)) > 0
            THEN <<"Primary subject focus: " \o MaxKey(CountItems(recent_subjects(log)))>>
            ELSE <<>>
        types_part ==
            IF Len(Get(patterns, "preferred_question_types", <<>>)) > 0
            THEN <<"Student prefers: " \o Join(patterns["preferred_question_types"], ", ")>>
            ELSE <<>>
        trend_part ==
            IF Get(patterns, "difficulty_trend", "") # ""
            THEN <<"Difficulty progression: " \o patterns["difficulty_trend"]>> ELSE <<>>
        context_parts == topics_part \o subject_part \o types_part \o trend_part
    IN  IF Len(context_parts) > 0
        THEN Join(context_parts, "; ")
        ELSE "Beginning of learning session."

-----------------------------------------------------------------------------
(* ToolRouter and ResponderRegistry: LearningTools *)

\* self.tools, in insertion order; label is the header a strategy puts before
\* the generated text (its leading emoji is left out: strings here are ASCII)
tools ==
    <<
       [name |-> "math_solver", method |-> "_solve_math_problem",
        label |-> "**Math Problem Solver**", max_tokens |-> 800],
       [name |-> "science_explainer", method |-> "_explain_science_concept",
        label |-> "**Science Concept Explainer**", max_tokens |-> 800],
       [name |-> "coding_helper", method |-> "_help_with_coding",
        label |-> "**Coding Helper**", max_tokens |-> 800],
       [name |-> "formula_reference", method |-> "_provide_formula_reference",
        label |-> "**Formula Reference**", max_tokens |-> 600],
       [name |-> "writing_assistant", method |-> "_assist_with_writing",
        label |-> "**Writing Assistant**", max_tokens |-> 800],
       [name |-> "literature_analysis", method |-> "_analyze_literature",
        label |-> "**Literature Analysis**", max_tokens |-> 800],
       [name |-> "language_practice", method |-> "_practice_language",
        label |-> "**Language Practice**", max_tokens |-> 700],
       [name |-> "grammar_checker", method |-> "_check_grammar",
        label |-> "**Grammar Check**", max_tokens |-> 600],
       [name |-> "history_timeline", method |-> "_create_history_timeline",
        label |-> "**History Timeline & Analysis**", max_tokens |-> 800],
       [name |-> "geography_helper", method |-> "_help_with_geography",
        label |-> "**Geography Helper**", max_tokens |-> 700],
       [name |-> "economics_explainer", method |-> "_explain_economics",
        label |-> "**Economics Explainer**", max_tokens |-> 700],
       [name |-> "political_analysis", method |-> "_analyze_politics",
        label |-> "**Political Analysis**", max_tokens |-> 700],
       [name |-> "music_theory", method |-> "_explain_music_theory",
        label |-> "**Music Theory Guide**", max_tokens |-> 700],
       [name |-> "art_analysis", method |-> "_analyze_artwork",
        label |-> "**Art Analysis**", max_tokens |-> 700],
       [name |-> "creative_writing", method |-> "_assist_creative_writing",
        label |-> "**Creative Writing Assistant**", max_tokens |-> 700],
       [name |-> "test_strategy", method |-> "_provide_test_strategy",
        label |-> "**Test Preparation Strategy**", max_tokens |-> 800],
       [name |-> "practice_problems", method |-> "_generate_practice_problems",
        label |-> "**Practice Problems**", max_tokens |-> 800],
       [name |-> "study_schedule", method |-> "_create_study_schedule",
        label |-> "**Study Schedule Planner**", max_tokens |-> 700]
    >>

ToolNames == {tools[i].name : i \in 1..Len(tools)}

\* self.tools[tool_name]
Strategy_FirstEntry(tool_name) == tools[1]

Strategy(tool_name) == tools[CHOOSE i \in 1..Len(tools) : tools[i].name = tool_name]

\* lines 59-67: the tools the classification prompt lists
offered_tools ==
    <<"math_solver", "science_explainer", "coding_helper", "writing_assistant",
      "literature_analysis", "history_timeline", "test_strategy", "practice_problems">>

\* lines 52-83: the classification request
ClassificationRequest(query, prof) ==
    [purpose |-> "classification", model |-> "gpt-4o", max_tokens |-> 200,
     json_mode |-> TRUE, query |-> query,
     level |-> Get(prof, "learning_level", "intermediate"),
     subjects |-> Get(prof, "preferred_subjects", <<>>),
     offered |-> offered_tools, context |-> ""]

\* the strategies whose prompt does not name the learning level
levelless_tools == {"formula_reference", "grammar_checker"}

StrategyRequest_WithContext(tool_name, query, prof, context) ==
    [purpose |-> "strategy", model |-> "gpt-4o",
     max_tokens |-> Strategy(tool_name).max_tokens,
     json_mode |-> FALSE, query |-> query,
     level |-> IF tool_name \in levelless_tools THEN ""
               ELSE Get(prof, "learning_level", "intermediate"),
     subjects |-> IF tool_name = "study_schedule"
                  THEN Get(prof, "preferred_subjects", <<>>) ELSE <<>>,
     offered |-> <<tool_name>>, context |-> context]

\* the request a strategy sends: its prompt names the query and, but for two
\* strategies, the level (study_schedule also the preferred subjects), never
\* the context argument
StrategyRequest(tool_name, query, prof, context) ==
    [purpose |-> "strategy", model |-> "gpt-4o",
     max_tokens |-> Strategy(tool_name).max_tokens,
     json_mode |-> FALSE, query |-> query,
     level |-> IF tool_name \in levelless_tools THEN ""
               ELSE Get(prof, "learning_level", "intermediate"),
     subjects |-> IF tool_name = "study_schedule"
                  THEN Get(prof, "preferred_subjects", <<>>) ELSE <<>>,
     offered |-> <<tool_name>>, context |-> ""]

\* what a strategy returns for the generated text
StrategyOutput(tool_name, content) == Strategy(tool_name).label \o "\n\n" \o content

\* What the LLM capability answers to the classification request:
\*   error        the call raises
\*   not_json     content json.loads cannot parse
\*   json_array   JSON that is no object (result.get raises)
\*   json_object  {"tool": ...}: null (or no such key) is None
ToolAnswers == ToolNames \cup {"quiz_maker", ""}

ClassifyReplies ==
    {[kind |-> k, tool |-> None] : k \in {"error", "not_json", "json_array", "json_object"}}
    \cup {[kind |-> "json_object", tool |-> <<t>>] : t \in ToolAnswers}

\* lines 85-95: the registry key to dispatch to, or None
analyze_dispatch_Default(reply) ==
    IF reply.kind # "json_object" THEN None
    ELSE IF reply.tool # None /\ reply.tool[1] # ""
         THEN IF reply.tool[1] \in ToolNames THEN reply.tool ELSE <<tools[1].name>>
         ELSE None

analyze_dispatch(reply) ==
    IF reply.kind # "json_object" THEN None
    ELSE LET tool_name == reply.tool
         IN  IF tool_name # None /\ tool_name[1] # "" /\ tool_name[1] \in ToolNames
             THEN tool_name
             ELSE None

-----------------------------------------------------------------------------
(* The chat turn: main and process_learning_query of app.py *)

MaxTurns == 2       \* chat turns of a session

\* what the user types, with the seconds the turn adds to the clock
TurnEvents == {ev \in Events : ev.user_query = "Solve the equation"}

\* texts the LLM capability generates
GeneratedTexts == {"Isolate x: x = 3."}

\* messages of the exceptions the LLM capability raises
ErrorTexts ==
    {"Error code: 429 - insufficient_quota",
     "You exceeded your current quota",
     "Error code: 429 - Rate_Limit reached for gpt-4o",
     "Connection error."}

\* what the LLM capability answers to a generation request
GenerationReplies ==
    {[ok |-> TRUE, text |-> t] : t \in GeneratedTexts}
    \cup {[ok |-> FALSE, text |-> t] : t \in ErrorTexts}

QuotaMessage ==
    "\n**OpenAI API Quota Exceeded**\n\nYour OpenAI API key has exceeded its usage quota. "
    \o "To continue using the AI Learning Coach:\n\n"
    \o "1. **Check your OpenAI account**: Visit https://platform.openai.com/usage\n"
    \o "2. **Add billing**: Go to https://platform.openai.com/settings/billing\n"
    \o "3. **Add credits**: Purchase credits or upgrade your plan\n"
    \o "4. **Free tier**: If using free tier, you may need to wait or upgrade\n\n"
    \o "The application will work normally once your quota is restored.\n"

RateLimitMessage ==
    "\n**Rate Limit Reached**\n\n"
    \o "Too many requests were made recently. Please wait a moment and try again.\n"
    \o "Your OpenAI API has temporary rate limiting active.\n"

\* lines 166-189: the text returned for an exception of the general path
ErrorMessage_NoLower(error_msg) ==
    IF Contains("insufficient_quota", error_msg)
       \/ Contains("exceeded your current quota", error_msg)
    THEN QuotaMessage
    ELSE IF Contains("rate_limit", error_msg)
    THEN RateLimitMessage
    ELSE "I encountered an error while processing your question: " \o error_msg
         \o ". Please check your OpenAI API configuration."

ErrorMessage(error_msg) ==
    IF Contains("insufficient_quota", error_msg)
       \/ Contains("exceeded your current quota", error_msg)
    THEN QuotaMessage
    ELSE IF Contains("rate_limit", Lower(error_msg))
    THEN RateLimitMessage
    ELSE "I encountered an error while processing your question: " \o error_msg
         \o ". Please check your OpenAI API configuration."

\* ErrorMessage over the exceptions of the model, evaluated once
ErrorMessages == [e \in ErrorTexts |-> ErrorMessage(e)]

\* lines 164-189: what process_learning_query returns once the general call
\* has returned its text or raised
GeneralResponse_AsError(reply) == ErrorMessage(reply.text)

GeneralResponse(reply) == IF reply.ok THEN reply.text ELSE ErrorMessages[reply.text]

\* lines 130-162: the general request
GeneralRequest_NoContext(query, prof, learning_context) ==
    [purpose |-> "general", model |-> "gpt-4o", max_tokens |-> 1000,
     json_mode |-> FALSE, query |-> query,
     level |-> prof.learning_level,
     subjects |-> prof.preferred_subjects,
     offered |-> <<>>, context |-> ""]

GeneralRequest(query, prof, learning_context) ==
    [purpose |-> "general", model |-> "gpt-4o", max_tokens |-> 1000,
     json_mode |-> FALSE, query |-> query,
     level |-> prof.learning_level,
     subjects |-> prof.preferred_subjects,
     offered |-> <<>>, context |-> learning_context]

\* line 126: `if tool_response:`
ToolResponseUsed_Never(tool_response) == FALSE

ToolResponseUsed(tool_response) == tool_response # None /\ tool_response[1] # ""

InitTurn ==
    /\ InitMemory
    /\ InitApp
    /\ feed = <<>>
    /\ fpos = 1

\* lines 98-124 and 52-83: the user submits a prompt; it joins the messages,
\* the learning context is read and the classification request goes out
SubmitUpTo(max_turns) ==
    /\ pc = "idle"
    /\ turns < max_turns
    /\ \E ev \in TurnEvents :
       \E topic_order \in Orders(SetOf(recent_topics(interactions))) :
          LET learning_context ==
                  get_learning_context(interactions, learning_patterns, topic_order)
          IN  /\ messages' = Append(messages, [role |-> "user", content |-> ev.user_query])
              /\ turn' = [query |-> ev.user_query, dt |-> ev.dt,
                          learning_context |-> learning_context,
                          tool_response |-> None, response |-> None]
              /\ calls' = <<ClassificationRequest(ev.user_query, profile)>>
    /\ replies' = <<>>
    /\ invoked' = <<>>
    /\ turns' = turns + 1
    /\ pc' = "classify"
    /\ UNCHANGED <<memvars, feedvars, profile, readvars>>

Submit == SubmitUpTo(MaxTurns)

AskGeneral_ReportStrategyFailure ==
    IF pc = "strategy"
    THEN /\ turn' = [turn EXCEPT !.response = <<ErrorMessage(replies'[Len(replies')].text)>>]
         /\ messages' = Append(messages, [role |-> "assistant",
                                 content |-> ErrorMessage(replies'[Len(replies')].text)])
         /\ pc' = "responded"
         /\ UNCHANGED <<calls, invoked>>
    ELSE /\ turn' = [turn EXCEPT !.tool_response = None]
         /\ calls' = Append(calls, GeneralRequest(turn.query, profile, turn.learning_context))
         /\ pc' = "general"
         /\ UNCHANGED <<messages, invoked>>

\* analyze_and_respond came back with None (line 91 or 95): lines 129-162,
\* the general request goes out
AskGeneral ==
    /\ turn' = [turn EXCEPT !.tool_response = None]
    /\ calls' = Append(calls, GeneralRequest(turn.query, profile, turn.learning_context))
    /\ pc' = "general"
    /\ UNCHANGED <<messages, invoked>>

\* the response is shown and joins the messages (lines 107-109)
Respond(response) ==
    /\ turn' = [turn EXCEPT !.response = <<response>>]
    /\ messages' = Append(messages, [role |-> "assistant", content |-> response])
    /\ pc' = "responded"
    /\ UNCHANGED <<calls, invoked>>

\* lines 85-95: the classification call returns or raises, its answer being
\* one of Replies
ClassifyStep(Replies) ==
    /\ pc = "classify"
    /\ \E reply \in Replies :
          /\ replies' = Append(replies, reply)
          /\ LET tool_name == analyze_dispatch(reply)
             IN  IF tool_name # None
                 THEN /\ invoked' = Append(invoked,
                             [tool |-> tool_name[1],
                              method |-> Strategy(tool_name[1]).method,
                              query |-> turn.query, profile |-> profile,
                              context |-> turn.learning_context,
                              output |-> None])
                      /\ calls' = Append(calls, StrategyRequest(tool_name[1], turn.query,
                                                               profile, turn.learning_context))
                      /\ pc' = "strategy"
                      /\ UNCHANGED <<turn, messages>>
                 ELSE AskGeneral
    /\ UNCHANGED <<memvars, feedvars, profile, turns, readvars>>

ClassifyReturn == ClassifyStep(ClassifyReplies)

\* the call of the strategy returns or raises: its output is the result of
\* analyze_and_respond (line 89), an exception makes that None (line 95);
\* back in process_learning_query, lines 126-127; the call's answer is one
\* of Replies
StrategyStep(Replies) ==
    /\ pc = "strategy"
    /\ \E reply \in Replies :
          /\ replies' = Append(replies, reply)
          /\ IF reply.ok
             THEN LET output == StrategyOutput(invoked[Len(invoked)].tool, reply.text)
                  IN  IF ToolResponseUsed(<<output>>)
                      THEN /\ turn' = [turn EXCEPT !.tool_response = <<output>>,
                                                   !.response = <<output>>]
                           /\ messages' = Append(messages,
                                  [role |-> "assistant", content |-> output])
                           /\ invoked' = [invoked EXCEPT ![Len(invoked)].output = <<output>>]
                           /\ pc' = "responded"
                           /\ UNCHANGED calls
                      ELSE /\ turn' = [turn EXCEPT !.tool_response = <<output>>]
                           /\ invoked' = [invoked EXCEPT ![Len(invoked)].output = <<output>>]
                           /\ calls' = Append(calls, GeneralRequest(turn.query, profile,
                                                                   turn.learning_context))
                           /\ pc' = "general"
                           /\ UNCHANGED messages
             ELSE AskGeneral
    /\ UNCHANGED <<memvars, feedvars, profile, turns, readvars>>

StrategyReturn == StrategyStep(GenerationReplies)

\* lines 164-189: the general call returns its text, or raises and the
\* except clause picks the message; the call's answer is one of Replies
GenerateStep(Replies) ==
    /\ pc = "general"
    /\ \E reply \in Replies :
          /\ replies' = Append(replies, reply)
          /\ Respond(GeneralResponse(reply))
    /\ UNCHANGED <<memvars, feedvars, profile, turns, readvars>>

GenerateReturn == GenerateStep(GenerationReplies)

\* line 112: the turn is recorded
RecordTurn_SkipErrors ==
    /\ pc = "responded"
    /\ IF \E e \in ErrorTexts : turn.response[1] = ErrorMessages[e]
       THEN UNCHANGED memvars
       ELSE DoAddInteraction(turn.query, turn.response[1], clock + turn.dt, "none")
    /\ pc' = "done"
    /\ UNCHANGED <<feedvars, messages, profile, turn, calls, replies, invoked, turns, readvars>>

RecordTurn ==
    /\ pc = "responded"
    /\ DoAddInteraction(turn.query, turn.response[1], clock + turn.dt, "none")
    /\ pc' = "done"
    /\ UNCHANGED <<feedvars, messages, profile, turn, calls, replies, invoked, turns, readvars>>

\* the script run ends; the locals of the turn are gone
EndTurn ==
    /\ pc = "done"
    /\ pc' = "idle"
    /\ turn' = NoTurn
    /\ calls' = <<>>
    /\ replies' = <<>>
    /\ invoked' = <<>>
    /\ UNCHANGED <<memvars, feedvars, messages, profile, turns, readvars>>

NextTurn ==
    Submit \/ ClassifyReturn \/ StrategyReturn \/ GenerateReturn \/ RecordTurn \/ EndTurn

SpecTurn == InitTurn /\ [][NextTurn]_vars

\* The classification replies that name a tool the prompt lists, a tool of the
\* registry that it does not list, or an unknown tool, and those that name none
FewClassifyReplies ==
    {r \in ClassifyReplies :
        r.tool # None => r.tool[1] \in {"math_solver", "grammar_checker", "quiz_maker"}}

ClassifyReturnFew == ClassifyStep(FewClassifyReplies)

\* the steps the application takes by itself once a prompt is in, given that
\* every LLM call returns or raises
TurnStep ==
    ClassifyReturnFew \/ StrategyReturn \/ GenerateReturn \/ RecordTurn \/ EndTurn

NextTurnFair == Submit \/ TurnStep

\* a turn runs synchronously to its end: no step of it waits for the user
SpecTurnFair == InitTurn /\ [][NextTurnFair]_vars /\ WF_vars(TurnStep)

-----------------------------------------------------------------------------
(* get_interaction_summary, get_subject_statistics *)

\* _format_duration over int(duration.total_seconds()); the clock of this
\* model counts whole seconds
_format_duration_Seconds(total_seconds) == ToString(total_seconds) \o " seconds"

_format_duration(total_seconds) ==
    IF total_seconds < 60 THEN ToString(total_seconds) \o " seconds"
    ELSE IF total_seconds < 3600 THEN ToString(total_seconds \div 60) \o " minutes"
    ELSE ToString(total_seconds \div 3600) \o "h "
         \o ToString((total_seconds % 3600) \div 60) \o "m"

\* lines 108-112: the subjects of the whole log, counted in order of first
\* appearance
summary_subject_counts(log) ==
    CountItems(SelectSeq([i \in 1..Len(log) |-> log[i].subject],
                         LAMBDA subject : subject # ""))

\* lines 124-129: isoformat() and fromisoformat() are inverse to each other,
\* so the stored timestamps are subtracted as they were taken
session_duration(log) ==
    IF Len(log) > 1 THEN log[Len(log)].timestamp - log[1].timestamp ELSE 0

\* get_interaction_summary() without an exception
get_interaction_summary(log) ==
    IF Len(log) = 0 THEN "No learning interactions recorded yet."
    ELSE
    LET total_interactions == Len(log)
        subject_counts == summary_subject_counts(log)
        all_topics == Concat([i \in 1..Len(log) |-> log[i].topics])
        unique_topics == SetOf(all_topics)
        last10 == LastN(log, 10)
        difficulties == [i \in 1..Len(last10) |-> last10[i].difficulty]
        summary_parts ==
            <<"Total interactions: " \o ToString(total_interactions),
              "Session duration: " \o _format_duration(session_duration(log)),
              "Topics explored: " \o ToString(Cardinality(unique_topics)) \o " unique topics",
              "Most discussed subject: "
                  \o (IF Len(subject_counts) > 0 THEN MaxKey(subject_counts) ELSE "Various"),
              "Recent difficulty level: "
                  \o (IF Len(difficulties) > 0 THEN difficulties[Len(difficulties)]
                      ELSE "Not assessed")>>
    IN  Join(summary_parts, "; ")

\* get_subject_statistics() without an exception: the dict as its
\* (subject, count) pairs in insertion order
get_subject_statistics(log) == CountItems([i \in 1..Len(log) |-> log[i].subject])

-----------------------------------------------------------------------------
(* The on-demand actions of the sidebar: create_study_plan, generate_quiz, *)
(* show_progress_report, get_study_techniques of app.py                    *)

MaxQuick == 2       \* on-demand actions run in a session

\* per action: the header of its result (without the leading emoji), what its
\* error message calls it, max_tokens, and whether it returns early when no
\* subject is selected (lines 198-200, 246-248)
quick_tools ==
    <<[action |-> "create_study_plan", header |-> "**Your Personalized Study Plan:**",
       noun |-> "study plan", max_tokens |-> 800, needs_subjects |-> TRUE],
      [action |-> "generate_quiz", header |-> "**Quiz Time: ",
       noun |-> "quiz", max_tokens |-> 600, needs_subjects |-> TRUE],
      [action |-> "show_progress_report", header |-> "**Your Learning Progress Report:**",
       noun |-> "progress report", max_tokens |-> 600, needs_subjects |-> FALSE],
      [action |-> "get_study_techniques", header |-> "**Personalized Study Techniques:**",
       noun |-> "study techniques", max_tokens |-> 700, needs_subjects |-> FALSE]>>

QuickActions == {quick_tools[i].action : i \in 1..Len(quick_tools)}

QuickTool(action) == quick_tools[CHOOSE i \in 1..Len(quick_tools) : quick_tools[i].action = action]

\* what the sidebar lets the user select (lines 53-67)
Profiles ==
    {[preferred_subjects |-> subjects, learning_level |-> level, study_goals |-> <<>>] :
        subjects \in {<<>>, <<"Mathematics">>, <<"Mathematics", "History">>},
        level \in {"beginner", "intermediate"}}

SubjectsWarning == "Please select your preferred subjects in the sidebar first."

\* lines 198-200 and 246-248: `if not subjects:` st.warning(...); return
ReturnsEarly_Never(action, prof) == FALSE

ReturnsEarly(action, prof) ==
    QuickTool(action).needs_subjects /\ Len(prof.preferred_subjects) = 0

\* the request of an action; the quiz names the subject drawn by
\* random.choice, the progress report carries get_interaction_summary()
QuickRequest(action, prof, subject, summary) ==
    [purpose |-> action, model |-> "gpt-4o", max_tokens |-> QuickTool(action).max_tokens,
     json_mode |-> FALSE, query |-> "",
     level |-> prof.learning_level,
     subjects |-> IF action = "generate_quiz" THEN <<subject>> ELSE prof.preferred_subjects,
     offered |-> <<>>,
     context |-> IF action = "show_progress_report" THEN summary ELSE ""]

\* the content appended to the messages for the generated text
QuickOutput(action, subject, text) ==
    (IF action = "generate_quiz" THEN QuickTool(action).header \o subject \o "**"
     ELSE QuickTool(action).header) \o "\n\n" \o text

\* the st.error text of the except clause (lines 232-237, 285-290, 331-336,
\* 376-381), without the leading emoji
QuickErrorMessage(action, error_msg) ==
    IF Contains("insufficient_quota", error_msg)
       \/ Contains("exceeded your current quota", error_msg)
    THEN IF action = "create_study_plan"
         THEN "OpenAI API quota exceeded. Please add credits to your OpenAI account"
              \o " at https://platform.openai.com/settings/billing"
         ELSE "OpenAI API quota exceeded. Please add credits to your OpenAI account."
    ELSE "Error generating " \o QuickTool(action).noun \o ": " \o error_msg

\* QuickErrorMessage over the actions and exceptions of the model, evaluated once
QuickErrorMessages ==
    [action \in QuickActions |-> [e \in ErrorTexts |-> QuickErrorMessage(action, e)]]

InitQuick ==
    /\ InitMemory
    /\ InitApp
    /\ feed \in {<<ev>> : ev \in TurnEvents}
    /\ fpos = 1

\* lines 53-67: the sidebar sets the profile, to one of Choices
SetProfileIn(Choices) ==
    /\ pc = "idle"
    /\ profile' \in Choices \ {profile}
    /\ quick' = [NoQuick EXCEPT !.runs = quick.runs]   \* the rerun redraws the page
    /\ calls' = <<>>
    /\ replies' = <<>>
    /\ UNCHANGED <<memvars, feedvars, messages, pc, turn, invoked, turns, probe>>

SetProfile == SetProfileIn(Profiles)

\* a sidebar button starts its action (lines 191-219, 239-272, 292-318,
\* 338-363): the early return with its warning, or the profile is read, the
\* quiz draws its subject, the progress report reads the summary, and the
\* request is sent; the script then waits in chat.completions.create
QuickAction ==
    /\ pc = "idle"
    /\ quick.runs < MaxQuick
    /\ \E action \in QuickActions :
          IF ReturnsEarly(action, profile)
          THEN /\ quick' = [action |-> action, shown |-> "warning",
                            text |-> SubjectsWarning, runs |-> quick.runs + 1]
               /\ calls' = <<>>
               /\ UNCHANGED pc
          ELSE \E subject \in (IF action = "generate_quiz"
                               THEN SetOf(profile.preferred_subjects) ELSE {""}) :
                  /\ calls' = <<QuickRequest(action, profile, subject,
                                             get_interaction_summary(interactions))>>
                  /\ quick' = [action |-> action, shown |-> "", text |-> "",
                               runs |-> quick.runs + 1]
                  /\ pc' = "quick"
    /\ replies' = <<>>
    /\ UNCHANGED <<memvars, feedvars, messages, profile, turn, invoked, turns, probe>>

\* the LLM call of the action returns or raises, by one of Replies, and the
\* action runs to its end (lines 221-237, 274-290, 320-336, 365-381): the
\* result (st.markdown and the messages) or st.error
QuickReturn(Replies) ==
    /\ pc = "quick"
    /\ \E reply \in Replies :
          LET action == quick.action
              subject == IF action = "generate_quiz" THEN calls[1].subjects[1] ELSE ""
          IN  /\ replies' = <<reply>>
              /\ IF reply.ok
                 THEN LET content == QuickOutput(action, subject, reply.text)
                      IN  /\ messages' = Append(messages,
                                 [role |-> "assistant", content |-> content])
                          /\ quick' = [quick EXCEPT !.shown = "markdown",
                                                    !.text = content]
                 ELSE /\ quick' = [quick EXCEPT
                                      !.shown = "error",
                                      !.text = QuickErrorMessages[action][reply.text]]
                      /\ UNCHANGED messages
    /\ pc' = "idle"
    /\ UNCHANGED <<memvars, feedvars, profile, calls, turn, invoked, turns, probe>>

QuickAnswer == QuickReturn(GenerationReplies)

\* the memory fills between two script runs
AddInteractionIdle == pc = "idle" /\ AddInteractionShort

NextQuick == SetProfile \/ QuickAction \/ QuickAnswer \/ AddInteractionIdle

SpecQuick == InitQuick /\ [][NextQuick]_vars

-----------------------------------------------------------------------------
(* A caller that adds more interactions than get_learning_context reads *)

MaxRecentAdds == 7  \* interactions added, each chosen freely

RecentEvents ==
    {[user_query |-> "I need help with algebra", ai_response |-> "Gladly.", dt |-> 30],
     [user_query |-> "Explain how cellular respiration works", ai_response |-> "Cells ...", dt |-> 0],
     [user_query |-> "Evaluate the theorem", ai_response |-> "It holds.", dt |-> 3600]}

InitRecent ==
    /\ InitMemory
    /\ InitApp
    /\ feed \in [1..MaxRecentAdds -> RecentEvents]
    /\ fpos = 1

AddInteractionRecent == added < MaxRecentAdds /\ AddInteraction

NextRecent == AddInteractionRecent

SpecRecent == InitRecent /\ [][NextRecent]_vars

-----------------------------------------------------------------------------
(* A long session: more chat turns than the log keeps.  What the LLM       *)
(* capability answers follows a script that repeats, chosen at the start.  *)

MaxLongTurns == 52  \* chat turns of a long session

\* per turn: the answer to the classification call and the answer to the
\* calls that generate text
ScriptEntries ==
    {[classify |-> [kind |-> "json_object", tool |-> <<"math_solver">>],
      generate |-> [ok |-> TRUE, text |-> "Isolate x: x = 3."]],
     [classify |-> [kind |-> "json_object", tool |-> None],
      generate |-> [ok |-> TRUE, text |-> "Isolate x: x = 3."]],
     [classify |-> [kind |-> "error", tool |-> None],
      generate |-> [ok |-> FALSE, text |-> "Connection error."]],
     [classify |-> [kind |-> "json_object", tool |-> <<"math_solver">>],
      generate |-> [ok |-> FALSE, text |-> "Error code: 429 - insufficient_quota"]]}

Scripts == UNION {[1..n -> ScriptEntries] : n \in 1..MaxPeriod}

\* the script entry of the turn in progress
Script == feed[((turns - 1) % Len(feed)) + 1]

InitLong ==
    /\ InitMemory
    /\ InitApp
    /\ feed \in Scripts
    /\ fpos = 1

SubmitLong == SubmitUpTo(MaxLongTurns)

ClassifyScripted == ClassifyStep({Script.classify})

StrategyScripted == StrategyStep({Script.generate})

GenerateScripted == GenerateStep({Script.generate})

NextLong ==
    SubmitLong \/ ClassifyScripted \/ StrategyScripted \/ GenerateScripted
    \/ RecordTurn \/ EndTurn

SpecLong == InitLong /\ [][NextLong]_vars

-----------------------------------------------------------------------------
(* The read accessors called on a memory that something outside the        *)
(* MemoryManager has damaged                                               *)

\* the key or the interaction list is missing: the first statements of
\* every read accessor raise
ReadRaises(dmg) == dmg \in {"no_memory", "no_interactions"}

\* the {} interaction as the accessors read it: get("topics", []) and
\* get("difficulty", "medium") give the defaults, `subject` is what the
\* get() of the accessor gives for the missing subject
Defaults(subject) ==
    [timestamp |-> 0, user_query |-> "", ai_response |-> "", topics |-> <<>>,
     difficulty |-> "medium", subject |-> subject]

\* the interaction list as the get() calls of an accessor read it
Read(log, subject) ==
    [i \in 1..Len(log) |-> IF IsEmpty(log[i]) THEN Defaults(subject) ELSE log[i]]

\* lines 56-69: get_learning_context raises
ContextRaises(dmg, log) ==
    \/ ReadRaises(dmg)
    \/ dmg = "none_interactions"
    \/ \E i \in 1..Len(LastN(log, 5)) : IsBad(LastN(log, 5)[i])

\* get_learning_context(): lines 55-95, the try and its except clause
get_learning_context_call(dmg, log, patterns, topic_order) ==
    IF ContextRaises(dmg, log)
    THEN [result |-> <<"Unable to retrieve learning context.">>, raised |-> FALSE]
    ELSE [result |-> <<get_learning_context(Read(log, ""), patterns, topic_order)>>,
          raised |-> FALSE]

\* get_interaction_summary(): lines 99-143, the try and its except clause
get_interaction_summary_call(dmg, log) ==
    IF ReadRaises(dmg)
    THEN [result |-> <<"Unable to generate interaction summary.">>, raised |-> FALSE]
    ELSE IF dmg = "none_interactions" \/ Len(log) = 0
    THEN [result |-> <<"No learning interactions recorded yet.">>, raised |-> FALSE]
    ELSE IF \/ \E i \in 1..Len(log) : IsBad(log[i])
            \/ Len(log) > 1 /\ (IsEmpty(log[1]) \/ IsEmpty(log[Len(log)]))
    THEN [result |-> <<"Unable to generate interaction summary.">>, raised |-> FALSE]
    ELSE [result |-> <<get_interaction_summary(Read(log, ""))>>, raised |-> FALSE]

\* get_subject_statistics(): lines 304-318, the try and its except clause,
\* which returns {}
get_subject_statistics_call(dmg, log) ==
    IF \/ ReadRaises(dmg)
       \/ dmg = "none_interactions"
       \/ \E i \in 1..Len(log) : IsBad(log[i])
    THEN [result |-> <<get_subject_statistics(<<>>)>>, raised |-> FALSE]
    ELSE [result |-> <<get_subject_statistics(Read(log, "Unknown"))>>, raised |-> FALSE]

MaxReadAdds == 7    \* interactions recorded in a run with a damaged memory

InitRead == InitFault

\* something outside the MemoryManager damages the session entry: the
\* entry, its interaction list, or the latest interaction
Damage ==
    /\ damage = "none"
    /\ damage' \in Damages
    /\ damage' \in {"bad_entry", "empty_entry"} => Len(interactions) >= 1
    /\ interactions' =
          IF damage' = "bad_entry"
          THEN [interactions EXCEPT ![Len(interactions)] = BadEntry]
          ELSE IF damage' = "empty_entry"
          THEN [interactions EXCEPT ![Len(interactions)] = EmptyEntry]
          ELSE interactions
    /\ UNCHANGED <<learning_patterns, clock, added, hist, last_op, feedvars, appvars>>

\* a caller adds the next event of its feed, whatever the memory is like
AddInteractionRead == added < MaxReadAdds /\ AddInteraction

GetLearningContext ==
    /\ \E topic_order \in (IF ContextRaises(damage, interactions) THEN {<<>>}
                            ELSE Orders(SetOf(recent_topics(Read(interactions, ""))))) :
          LET r == get_learning_context_call(damage, interactions, learning_patterns,
                                             topic_order)
          IN  probe' = [op |-> "get_learning_context", arg |-> "", fault |-> damage,
                        result |-> r.result, raised |-> r.raised]
    /\ UNCHANGED <<memvars, feedvars, messages, profile, pc, turn, calls, replies,
                   invoked, turns, quick>>

GetInteractionSummary ==
    /\ LET r == get_interaction_summary_call(damage, interactions)
       IN  probe' = [op |-> "get_interaction_summary", arg |-> "", fault |-> damage,
                     result |-> r.result, raised |-> r.raised]
    /\ UNCHANGED <<memvars, feedvars, messages, profile, pc, turn, calls, replies,
                   invoked, turns, quick>>

\* memory_manager.get_subject_statistics()
GetSubjectStatistics_Dropping ==
    /\ LET r == get_subject_statistics_call(damage, interactions)
       IN  probe' = [op |-> "get_subject_statistics", arg |-> "", fault |-> damage,
                     result |-> r.result, raised |-> r.raised]
    /\ interactions' = <<>>
    /\ UNCHANGED <<learning_patterns, clock, added, hist, last_op, damage, feedvars,
                   messages, profile, pc, turn, calls, replies, invoked, turns, quick>>

GetSubjectStatistics ==
    /\ LET r == get_subject_statistics_call(damage, interactions)
       IN  probe' = [op |-> "get_subject_statistics", arg |-> "", fault |-> damage,
                     result |-> r.result, raised |-> r.raised]
    /\ UNCHANGED <<memvars, feedvars, messages, profile, pc, turn, calls, replies,
                   invoked, turns, quick>>

NextRead ==
    AddInteractionRead \/ Damage \/ ClearMemory \/ GetLearningContext
    \/ GetInteractionSummary \/ GetSubjectStatistics

SpecRead == InitRead /\ [][NextRead]_vars

-----------------------------------------------------------------------------
(* The annotators applied to queries put together from a few fragments *)

MaxWords == 3       \* fragments in a query

Fragments ==
    {"Algebra", "war", "a poem", "the cell", "Revolution", "geometry and calculus", "hello"}

ProbeQueries == {Join(w, " ") : w \in UNION {[1..n -> Fragments] : n \in 1..MaxWords}}

\* the query to annotate is drawn at the start
InitAnnotate ==
    /\ InitMemory
    /\ InitApp
    /\ feed \in {<<query>> : query \in ProbeQueries}
    /\ fpos = 1

\* self._extract_topics(query)
ExtractTopics ==
    /\ probe = NoProbe
    /\ probe' = [op |-> "_extract_topics", arg |-> feed[1], fault |-> "none",
                 result |-> <<_extract_topics(feed[1])>>, raised |-> FALSE]
    /\ UNCHANGED <<memvars, feedvars, messages, profile, pc, turn, calls, replies,
                   invoked, turns, quick>>

NextAnnotate == ExtractTopics

SpecAnnotate == InitAnnotate /\ [][NextAnnotate]_vars

\* the annotator called on the query drawn at the start
Annotate(op, result) ==
    /\ probe = NoProbe
    /\ probe' = [op |-> op, arg |-> feed[1], fault |-> "none",
                 result |-> <<result>>, raised |-> FALSE]
    /\ UNCHANGED <<memvars, feedvars, messages, profile, pc, turn, calls, replies,
                   invoked, turns, quick>>

DifficultyFragments ==
    {"Explain", "what is", "Analyze", "the Quantum theorem", "cells", "simple"}

DifficultyQueries ==
    Queries \cup
    {Join(w, " ") : w \in UNION {[1..n -> DifficultyFragments] : n \in 1..MaxWords}}

InitDifficulty ==
    /\ InitMemory
    /\ InitApp
    /\ feed \in {<<query>> : query \in DifficultyQueries}
    /\ fpos = 1

\* self._estimate_difficulty(query)
EstimateDifficulty == Annotate("_estimate_difficulty", _estimate_difficulty(feed[1]))

NextDifficulty == EstimateDifficulty

SpecDifficulty == InitDifficulty /\ [][NextDifficulty]_vars

SubjectFragments ==
    {"DNA", "the cell", "atom", "Algebra", "the art of war", "hello", "solve the Equation"}

SubjectQueries ==
    {Join(w, " ") : w \in UNION {[1..n -> SubjectFragments] : n \in 1..MaxWords}}

InitSubject ==
    /\ InitMemory
    /\ InitApp
    /\ feed \in {<<query>> : query \in SubjectQueries}
    /\ fpos = 1

\* self._identify_subject(query)
IdentifySubject == Annotate("_identify_subject", _identify_subject(feed[1]))

NextSubject == IdentifySubject

SpecSubject == InitSubject /\ [][NextSubject]_vars

QuestionFragments ==
    {"Solve", "Explain", "why", "Compare", "Help me", "the cell", "find"}

QuestionQueries ==
    {Join(w, " ") : w \in UNION {[1..n -> QuestionFragments] : n \in 1..MaxWords}}

InitQuestion ==
    /\ InitMemory
    /\ InitApp
    /\ feed \in {<<query>> : query \in QuestionQueries}
    /\ fpos = 1

\* self._classify_question_type(query)
ClassifyQuestionType ==
    Annotate("_classify_question_type", _classify_question_type(feed[1]))

NextQuestion == ClassifyQuestionType

SpecQuestion == InitQuestion /\ [][NextQuestion]_vars

-----------------------------------------------------------------------------
(* A registry strategy invoked twice, on the same query and profile, with   *)
(* two context strings                                                      *)

\* texts get_learning_context returns
StrategyContexts ==
    {"No previous learning interactions in this session.",
     "Recent topics: algebra; Primary subject focus: Mathematics",
     "Unable to retrieve learning context."}

StrategyInputs ==
    {[tool |-> tool_name, query |-> query, profile |-> prof, contexts |-> <<c1, c2>>,
      reply |-> reply] :
        tool_name \in ToolNames, query \in {"Solve the equation", "I need help with algebra"},
        prof \in Profiles, c1 \in StrategyContexts, c2 \in StrategyContexts,
        reply \in GenerationReplies}

\* self.tools[tool_name](query, profile, context) against an LLM capability
\* that answers reply: the request sent, and the text returned unless the
\* call raises
InvokeStrategy(tool_name, query, prof, context, reply) ==
    [request |-> StrategyRequest(tool_name, query, prof, context),
     output |-> IF reply.ok THEN <<StrategyOutput(tool_name, reply.text)>> ELSE None,
     raised |-> ~reply.ok]

InitStrategy ==
    /\ InitMemory
    /\ InitApp
    /\ feed \in {<<in>> : in \in {i \in StrategyInputs : i.contexts[1] # i.contexts[2]}}
    /\ fpos = 1

\* a registry strategy is invoked, for the first context and then for the
\* second: it builds its prompt and sends the request, and waits in
\* chat.completions.create
InvokeSend ==
    /\ pc = "idle"
    /\ Len(probe.result) < Len(feed[1].contexts)
    /\ LET in == feed[1]
           k == Len(probe.result) + 1
       IN  /\ calls' = Append(calls, StrategyRequest(in.tool, in.query, in.profile,
                                                     in.contexts[k]))
           /\ probe' = [probe EXCEPT !.op = "strategy", !.arg = in.tool]
    /\ pc' = "invoke"
    /\ UNCHANGED <<memvars, feedvars, messages, profile, turn, replies, invoked,
                   turns, quick>>

\* the LLM call of the strategy returns or raises, and so does the strategy
InvokeReturn ==
    /\ pc = "invoke"
    /\ LET in == feed[1]
           k == Len(probe.result) + 1
       IN  /\ replies' = Append(replies, in.reply)
           /\ probe' = [probe EXCEPT
                           !.result = Append(@, InvokeStrategy(in.tool, in.query,
                                                    in.profile, in.contexts[k], in.reply)),
                           !.raised = ~in.reply.ok]
    /\ pc' = "idle"
    /\ UNCHANGED <<memvars, feedvars, messages, profile, turn, calls, invoked,
                   turns, quick>>

NextStrategy == InvokeSend \/ InvokeReturn

SpecStrategy == InitStrategy /\ [][NextStrategy]_vars

-----------------------------------------------------------------------------
(* The application as its user drives it: the chat input and the sidebar    *)

\* lines 85-87: the Clear Conversation button empties the messages and
\* reruns the script
ClearConversation_ClearsMemory ==
    /\ pc = "idle"
    /\ quick.runs < MaxQuick
    /\ messages' = <<>>
    /\ quick' = [action |-> "clear_conversation", shown |-> "rerun", text |-> "",
                 runs |-> quick.runs + 1]
    /\ calls' = <<>>
    /\ replies' = <<>>
    /\ interactions' = <<>>
    /\ learning_patterns' = EmptyDict
    /\ UNCHANGED <<clock, added, hist, last_op, damage, feedvars, profile, pc, turn,
                   invoked, turns, probe>>

ClearConversation ==
    /\ pc = "idle"
    /\ quick.runs < MaxQuick
    /\ messages' = <<>>
    /\ quick' = [action |-> "clear_conversation", shown |-> "rerun", text |-> "",
                 runs |-> quick.runs + 1]
    /\ calls' = <<>>
    /\ replies' = <<>>
    /\ UNCHANGED <<memvars, feedvars, profile, pc, turn, invoked, turns, probe>>

\* the sessions of this specification: the LLM capability answers every turn
\* and every button as one script entry says
InitAppSession ==
    /\ InitMemory
    /\ InitApp
    /\ feed \in {<<entry>> : entry \in ScriptEntries}
    /\ fpos = 1

\* the selections of the sidebar in these sessions
AppProfiles == {prof \in Profiles : prof.learning_level = "intermediate"
                                    /\ Len(prof.preferred_subjects) <= 1}

SetProfileApp == SetProfileIn(AppProfiles)

QuickAnswerScripted == QuickReturn({Script.generate})

\* what the user can do, and what the application does in answer
NextApp ==
    Submit \/ ClassifyScripted \/ StrategyScripted \/ GenerateScripted \/ RecordTurn
    \/ EndTurn \/ SetProfileApp \/ QuickAction \/ QuickAnswerScripted
    \/ ClearConversation

SpecApp == InitAppSession /\ [][NextApp]_vars

-----------------------------------------------------------------------------
(* The application together with the calls of the MemoryManager that the    *)
(* application itself never makes (clear_memory, get_subject_statistics)     *)

\* one script entry per session: the classifier fails or names one of the
\* 18 registry tools, the calls that generate text return their text or fail
FrameScriptEntries ==
    {[classify |-> c, generate |-> g] :
        c \in {r \in ClassifyReplies :
                  r.kind = "error" \/ (r.tool # None /\ r.tool[1] \in ToolNames)},
        g \in {r \in GenerationReplies : r.ok \/ r.text = "Connection error."}}

InitFrame ==
    /\ InitMemory
    /\ InitApp
    /\ feed \in {<<entry>> : entry \in FrameScriptEntries}
    /\ fpos = 1

\* a session of this specification holds at most MaxTurns chat turns and
\* presses of a button together
SubmitFrame == turns + quick.runs < MaxTurns /\ Submit

QuickActionFrame == turns + quick.runs < MaxTurns /\ QuickAction

\* the calls made between two script runs
ReadContextIdle == pc = "idle" /\ GetLearningContext

ReadSummaryIdle == pc = "idle" /\ GetInteractionSummary

ReadStatisticsIdle == pc = "idle" /\ GetSubjectStatistics

ClearMemoryIdle == pc = "idle" /\ ClearMemory

NextFrame ==
    SubmitFrame \/ ClassifyScripted \/ StrategyScripted \/ GenerateScripted \/ RecordTurn
    \/ EndTurn \/ SetProfileApp \/ QuickActionFrame \/ QuickAnswerScripted
    \/ ReadContextIdle \/ ReadSummaryIdle \/ ReadStatisticsIdle \/ ClearMemoryIdle

SpecFrame == InitFrame /\ [][NextFrame]_vars

-----------------------------------------------------------------------------
(* Properties of the memory *)

PatternList(key) == Get(learning_patterns, key, <<>>)

TrendPresent == "difficulty_trend" \in DOMAIN learning_patterns

\* C1: in every state reached by add_interaction and clear_memory calls the
\* interaction log holds at most 50 entries.
C1_LogAtMost50 == Len(interactions) <= 50

\* the log is full and an entry has been evicted
C1_Witness == Len(interactions) = 50 /\ added > 50

\* C2: after n recorded interactions on a fresh or just cleared store the log
\* is exactly the last min(n, 50) of them, in the order they were added; for
\* n = 55 these are the 6th through 55th.
C2_Fifo ==
    /\ Len(hist) = added
    /\ interactions = LastN(hist, Min(added, 50))
    /\ added = 55 => interactions = SubSeq(hist, 6, 55)

\* 55 interactions were added, the retained entries are not all alike
C2_Witness ==
    /\ added = 55
    /\ Len(interactions) = 50
    /\ interactions[1] # interactions[2]
    /\ hist[1] # interactions[1]

\* C3: the learning patterns agree with the tail of the log: difficulty_history
\* is the difficulty labels of the last min(10, len) interactions, in order,
\* preferred_question_types the question types of their queries, and both
\* hold at most 10 entries.
C3_PatternsFollowLog ==
    LET tail == LastN(interactions, 10)
    IN  /\ Len(PatternList("difficulty_history")) <= 10
        /\ Len(PatternList("preferred_question_types")) <= 10
        /\ PatternList("difficulty_history") =
               [i \in 1..Len(tail) |-> tail[i].difficulty]
        /\ PatternList("preferred_question_types") =
               [i \in 1..Len(tail) |-> Annotations[tail[i].user_query].question_type]

\* entries were evicted from the log, and the ten tracked labels differ
C3_Witness ==
    /\ added > 50
    /\ Len(PatternList("difficulty_history")) = 10
    /\ Len(PatternList("preferred_question_types")) = 10
    /\ Cardinality({PatternList("difficulty_history")[i] : i \in 1..10}) = 3
    /\ Cardinality({PatternList("preferred_question_types")[i] : i \in 1..10}) = 3

\* C4: with at least 3 samples in difficulty_history, difficulty_trend is
\* decided by the first and the last of the 3 most recent samples alone
\* (beginner = 1, intermediate = 2, advanced = 3): increasing if the last is
\* larger, decreasing if it is smaller, stable if they are equal.
C4_TrendFromLastThree ==
    LET h == PatternList("difficulty_history")
        d == LastN(h, 3)
        rank == [x \in {"beginner", "intermediate", "advanced"} |->
                    IF x = "beginner" THEN 1 ELSE IF x = "intermediate" THEN 2 ELSE 3]
    IN  Len(h) >= 3 =>
            /\ TrendPresent
            /\ learning_patterns["difficulty_trend"] =
                   IF rank[d[3]] > rank[d[1]] THEN "increasing"
                   ELSE IF rank[d[3]] < rank[d[1]] THEN "decreasing"
                   ELSE "stable"
            /\ d = <<"beginner", "intermediate", "advanced">>
                   => learning_patterns["difficulty_trend"] = "increasing"
            /\ d = <<"advanced", "intermediate", "beginner">>
                   => learning_patterns["difficulty_trend"] = "decreasing"
            /\ d = <<"intermediate", "advanced", "intermediate">>
                   => learning_patterns["difficulty_trend"] = "stable"

\* exactly three additions, the middle sample above both ends: stable
C4_Witness ==
    /\ added = 3
    /\ PatternList("difficulty_history") = <<"intermediate", "advanced", "intermediate">>
    /\ TrendPresent
    /\ learning_patterns["difficulty_trend"] = "stable"

\* C5: difficulty_trend is defined exactly when at least 3 interactions have
\* been added since construction or the last clear_memory.
C5_TrendIffThreeAdded == TrendPresent <=> added >= 3

\* the third addition has just defined the trend
C5_Witness == added = 3 /\ TrendPresent /\ last_op.op = "add_interaction"

\* C6: add_interaction never raises, and a call in which a step failed leaves
\* the interaction log and the learning patterns exactly as they were.
C6_FailedAddLeavesState ==
    [][/\ last_op'.raised = FALSE
       /\ (last_op'.op = "add_interaction" /\ last_op'.fault # "none")
             => /\ interactions' = interactions
                /\ learning_patterns' = learning_patterns]_vars

-----------------------------------------------------------------------------
(* Properties of the chat turn *)

\* the classification call of the turn has been answered
Classified == Len(replies) >= 1

\* its answer names a key of the registry
RegistryHit ==
    /\ Classified
    /\ replies[1].kind = "json_object"
    /\ replies[1].tool # None
    /\ replies[1].tool[1] \in ToolNames

CallsFor(purposes) == Len(SelectSeq(calls, LAMBDA c : c.purpose \in purposes))

\* the call of the selected strategy has raised
StrategyFailed ==
    /\ Len(replies) >= 2
    /\ calls[2].purpose = "strategy"
    /\ ~replies[2].ok

\* C7: when the classification call fails, its result cannot be parsed, the
\* tool is null, or the tool name is no key of the registry, the routing
\* gives None and no strategy is invoked.
C7_NoToolGivesNone ==
    (Classified /\ ~RegistryHit) =>
        /\ invoked = <<>>
        /\ CallsFor({"strategy"}) = 0
        /\ turn.tool_response = None
        /\ pc \in {"general", "responded", "done"}

\* the classifier named a tool the registry does not have; the general
\* request went out instead
C7_Witness ==
    /\ pc = "general"
    /\ replies = <<[kind |-> "json_object", tool |-> <<"quiz_maker">>]>>
    /\ invoked = <<>>

\* C8: when the classification names a key of the registry, exactly that
\* strategy is invoked, once, with (query, profile, context); the text it
\* returns is what the routing returns, and that is the turn's response.
C8_HitDispatches ==
    RegistryHit =>
        /\ Len(invoked) = 1
        /\ invoked[1].tool = replies[1].tool[1]
        /\ \E i \in 1..Len(tools) :
              /\ tools[i].name = replies[1].tool[1]
              /\ tools[i].method = invoked[1].method
        /\ invoked[1].query = turn.query
        /\ invoked[1].profile = profile
        /\ invoked[1].context = turn.learning_context
        /\ CallsFor({"strategy"}) = 1
        /\ invoked[1].output # None =>
              /\ turn.tool_response = invoked[1].output
              /\ turn.response = invoked[1].output
              /\ pc \in {"responded", "done"}
              /\ messages[Len(messages)] =
                     [role |-> "assistant", content |-> invoked[1].output[1]]

\* in the second turn of a session the grammar checker, which the
\* classification prompt does not list, was named and has answered
C8_Witness ==
    /\ pc = "responded"
    /\ turns = 2
    /\ replies[1].tool = <<"grammar_checker">>
    /\ invoked[1].method = "_check_grammar"
    /\ turn.learning_context # "No previous learning interactions in this session."
    /\ turn.response = <<"**Grammar Check**\n\nIsolate x: x = 3.">>

\* C9 as stated: a turn issues at most two LLM calls, at most one
\* classification call and at most one generation call.
C9_AtMostTwoCalls ==
    /\ Len(calls) <= 2
    /\ CallsFor({"classification"}) <= 1
    /\ CallsFor({"strategy", "general"}) <= 1

\* C9 amended: a turn issues at most three LLM calls, at most one
\* classification call and at most two generation calls; the third call is the
\* general one, issued after the call of the selected strategy has raised.
C9_AtMostThreeCalls ==
    /\ Len(calls) <= 3
    /\ CallsFor({"classification"}) <= 1
    /\ CallsFor({"strategy"}) <= 1
    /\ CallsFor({"general"}) <= 1
    /\ Len(calls) = 3 =>
          /\ calls[3].purpose = "general"
          /\ StrategyFailed

\* the strategy's call raised and the general call was issued: three calls
C9_Witness == Len(calls) = 3 /\ pc = "responded" /\ StrategyFailed

\* the general call of the turn has returned a text
GeneralSucceeded ==
    /\ Len(replies) = Len(calls)
    /\ Len(calls) >= 2
    /\ calls[Len(calls)].purpose = "general"
    /\ replies[Len(replies)].ok

\* C10: every chat turn completes with a response text; when the routing
\* fails or yields no tool and the general call succeeds, the response is the
\* generated text and no error message.
C10_TurnCompletes ==
    /\ (pc = "classify") ~> (pc = "done" /\ turn.response # None)
    /\ [](pc \in {"responded", "done"} => turn.response # None)
    /\ []((pc \in {"responded", "done"} /\ GeneralSucceeded) =>
            /\ turn.response = <<replies[Len(replies)].text>>
            /\ turn.response[1] \in GeneratedTexts
            /\ \A e \in ErrorTexts : turn.response[1] # ErrorMessages[e])

\* the classification call raised, the general call answered, the turn is over
C10_Witness ==
    /\ pc = "done"
    /\ replies[1].kind = "error"
    /\ GeneralSucceeded
    /\ turn.response = <<"Isolate x: x = 3.">>

\* the general call of the turn has raised
GeneralFailed ==
    /\ Len(replies) = Len(calls)
    /\ Len(calls) >= 2
    /\ calls[Len(calls)].purpose = "general"
    /\ ~replies[Len(replies)].ok

\* the kind of failure each exception of the model stands for
FailureKind ==
    [e \in ErrorTexts |->
        IF e \in {"Error code: 429 - insufficient_quota", "You exceeded your current quota"}
        THEN "quota"
        ELSE IF e = "Error code: 429 - Rate_Limit reached for gpt-4o" THEN "rate_limit"
        ELSE "other"]

\* C11: when the general call fails, the response is the quota message for a
\* quota failure, the rate-limit message for rate limiting, and for any other
\* failure a third message that contains the error text; the three differ.
C11_MessageByFailureKind ==
    (pc \in {"responded", "done"} /\ GeneralFailed) =>
        LET error_msg == replies[Len(replies)].text
            response == turn.response[1]
        IN  /\ QuotaMessage # RateLimitMessage
            /\ FailureKind[error_msg] = "quota" => response = QuotaMessage
            /\ FailureKind[error_msg] = "rate_limit" => response = RateLimitMessage
            /\ FailureKind[error_msg] = "other" =>
                  /\ response \notin {QuotaMessage, RateLimitMessage}
                  /\ Contains(error_msg, response)

\* the general call was rate limited, the turn answers with the rate-limit
\* message
C11_Witness ==
    /\ pc = "responded"
    /\ GeneralFailed
    /\ FailureKind[replies[Len(replies)].text] = "rate_limit"
    /\ turn.response = <<RateLimitMessage>>

-----------------------------------------------------------------------------
(* Properties of the on-demand actions *)

\* the LLM call of the last on-demand action has raised
QuickFailed == quick.action # "" /\ Len(replies) = 1 /\ ~replies[1].ok

\* the message an on-demand action shows for a failure that is neither quota
\* exhaustion nor rate limiting
OtherFailureText(action, error_msg) ==
    "Error generating " \o QuickTool(action).noun \o ": " \o error_msg

\* C12: a failed LLM call of an on-demand action is shown as a message chosen
\* by the kind of failure; rate limiting has a message of its own, which is
\* neither the quota message nor the message other failures get.
C12_QuickMessageByFailureKind ==
    /\ (quick.action # "" /\ Len(replies) = 1 /\ ~replies[1].ok) => quick.shown = "error"
    /\ QuickFailed =>
          LET error_msg == replies[1].text
              quota_text == QuickErrorMessages[quick.action]["You exceeded your current quota"]
          IN  /\ FailureKind[error_msg] = "quota" => quick.text = quota_text
              /\ FailureKind[error_msg] = "rate_limit" =>
                    /\ quick.text # quota_text
                    /\ quick.text # OtherFailureText(quick.action, error_msg)
              /\ FailureKind[error_msg] = "other" =>
                    quick.text = OtherFailureText(quick.action, error_msg)

\* C13 as stated: every on-demand action issues exactly one LLM call.
C13_ExactlyOneCall == quick.action # "" => Len(calls) = 1

\* C13 amended: an on-demand action issues at most one LLM call; it issues
\* none exactly when it is the study plan or the quiz and no subject is
\* selected, and then it shows the warning and appends no message.  While
\* the call is out nothing is shown; once it is answered the action shows
\* its text or its error.
C13_OneCallUnlessNoSubjects ==
    /\ pc = "quick" => quick.action # "" /\ Len(calls) = 1 /\ replies = <<>>
    /\ quick.action # "" =>
        /\ Len(calls) <= 1
        /\ Len(calls) = 0 <=>
              /\ quick.action \in {"create_study_plan", "generate_quiz"}
              /\ profile.preferred_subjects = <<>>
        /\ Len(calls) = 0 => quick.shown = "warning" /\ quick.text = SubjectsWarning
        /\ Len(calls) = 1 =>
              /\ calls[1].purpose = quick.action
              /\ pc = "quick" => quick.shown = ""
              /\ pc = "idle" => Len(replies) = 1 /\ quick.shown \in {"markdown", "error"}

\* the quiz was asked for with no subject selected
C13_Witness ==
    /\ quick.action = "generate_quiz"
    /\ profile.preferred_subjects = <<>>
    /\ quick.shown = "warning"
    /\ calls = <<>>

-----------------------------------------------------------------------------
(* Properties of the read accessors *)

\* the orders in which list(set(recent_topics)) may list the recent topics
TopicOrders == Orders(SetOf(recent_topics(interactions)))

\* C14: after clear_memory, whatever was added before, every read accessor
\* returns what it returns on a new store: the no-history sentence, the
\* no-interactions sentence, an empty mapping; the patterns are empty.
C14_ClearIsFresh ==
    last_op.op = "clear_memory" =>
        /\ \A topic_order \in TopicOrders :
              /\ get_learning_context(interactions, learning_patterns, topic_order)
                     = "No previous learning interactions in this session."
              /\ get_learning_context(interactions, learning_patterns, topic_order)
                     = get_learning_context(<<>>, EmptyDict, <<>>)
        /\ get_interaction_summary(interactions) = "No learning interactions recorded yet."
        /\ get_interaction_summary(interactions) = get_interaction_summary(<<>>)
        /\ get_subject_statistics(interactions) = <<>>
        /\ learning_patterns = EmptyDict

\* the store was cleared after interactions had been added
C14_Witness ==
    /\ last_op.op = "clear_memory"
    /\ fpos = 3
    /\ interactions = <<>>

\* s starts with p
StartsWith(p, s) == Len(s) >= Len(p) /\ SubSeq(s, 1, Len(p)) = p

\* the positions in the log that get_learning_context reads
Last5 == (Len(interactions) - Min(5, Len(interactions)) + 1)..Len(interactions)

\* the interactions at those positions that have subject s
Votes(s) == Cardinality({i \in Last5 : interactions[i].subject = s})

\* C15: with a non-empty log the context lists exactly the union of the
\* topics of the last min(5, n) interactions and names as primary subject a
\* most frequent subject of those interactions; older interactions count for
\* nothing.  After one addition with topics [algebra] and subject Mathematics
\* the context contains both words.
C15_ContextFromLastFive ==
    Len(interactions) >= 1 =>
        LET union_topics == UNION {SetOf(interactions[i].topics) : i \in Last5}
        IN  \A topic_order \in TopicOrders :
            LET ctx == get_learning_context(interactions, learning_patterns, topic_order)
                topics_part == IF union_topics = {} THEN ""
                               ELSE "Recent topics: " \o Join(topic_order, ", ") \o "; "
            IN  /\ SetOf(topic_order) = union_topics
                /\ \E i \in Last5 :
                      /\ \A j \in Last5 : Votes(interactions[j].subject)
                                              <= Votes(interactions[i].subject)
                      /\ LET head == topics_part \o "Primary subject focus: "
                                         \o interactions[i].subject
                         IN  ctx = head \/ StartsWith(head \o "; ", ctx)
                /\ (/\ Len(interactions) = 1
                    /\ interactions[1].topics = <<"algebra">>
                    /\ interactions[1].subject = "Mathematics")
                   => Contains("algebra", ctx) /\ Contains("Mathematics", ctx)

\* the first of seven interactions is the only one on algebra and the only
\* one on Mathematics, and it is older than the last five
C15_Witness ==
    /\ Len(interactions) = 7
    /\ interactions[1].topics = <<"algebra">>
    /\ \A i \in 2..7 : interactions[i].subject # "Mathematics"
    /\ Votes("Biology") = 2
    /\ Votes("General") = 3

-----------------------------------------------------------------------------
(* Properties of the recording of chat turns *)

\* C16: every chat turn records exactly one interaction, after its response
\* has been produced, holding the turn's query and the turn's response, be
\* that a tool text, a generated text or an error message; after k turns on a
\* new store the log holds min(k, 50) interactions.
C16_OneRecordPerTurn ==
    /\ pc \in {"classify", "strategy", "general", "responded"} => added = turns - 1
    /\ pc \in {"done", "idle"} => added = turns
    /\ Len(interactions) = Min(added, 50)
    /\ Len(hist) = added
    /\ pc = "done" =>
          /\ turn.response # None
          /\ hist[added].user_query = turn.query
          /\ hist[added].ai_response = turn.response[1]
          /\ interactions[Len(interactions)] = hist[added]
          /\ messages[Len(messages)].content = hist[added].ai_response
    /\ Len(messages) = 2 * added + (IF pc \in {"classify", "strategy", "general"} THEN 1
                                    ELSE IF pc = "responded" THEN 2 ELSE 0)

\* the 52nd turn of a session has been recorded; its response is the error
\* message of a failed general call, and the log holds 50 interactions
C16_Witness ==
    /\ pc = "done"
    /\ turns = 52
    /\ Len(interactions) = 50
    /\ GeneralFailed
    /\ hist[52].ai_response = ErrorMessages["Connection error."]

\* C17: in a chat turn the learning context is read first, then the
\* classification call is issued, once; then the selected strategy or the
\* general call runs (the general call last, and only when the routing has
\* returned no response), and then the turn is recorded.  The context of a
\* turn is that of the interactions recorded by the turns before it.
C17_TurnOrder ==
    pc # "idle" =>
        /\ Len(calls) >= 1
        /\ calls[1].purpose = "classification"
        /\ CallsFor({"classification"}) = 1
        /\ \A i \in 2..Len(calls) :
              /\ calls[i].purpose \in {"strategy", "general"}
              /\ calls[i].purpose = "general" =>
                    /\ i = Len(calls)
                    /\ Len(replies) >= i - 1
                    /\ turn.tool_response = None
                    /\ invoked # <<>> => invoked[1].output = None
                    /\ calls[i].context = turn.learning_context
        /\ Len(calls) - 1 <= Len(replies) /\ Len(replies) <= Len(calls)
        /\ pc \in {"classify", "strategy", "general", "responded"} =>
              /\ added = turns - 1
              /\ \E topic_order \in TopicOrders :
                    turn.learning_context =
                        get_learning_context(interactions, learning_patterns, topic_order)
        /\ pc \in {"responded", "done"} => Len(replies) = Len(calls) /\ Len(calls) >= 2
        /\ pc = "done" => added = turns
        /\ turns = 1 => turn.learning_context
                            = "No previous learning interactions in this session."
        /\ turns = 2 => turn.learning_context
                            = "Recent topics: equation; Primary subject focus: Mathematics; "
                              \o "Student prefers: problem_solving"

\* in the second turn the strategy's call has raised and the general request
\* has gone out with the context of the first turn
C17_Witness ==
    /\ pc = "general"
    /\ turns = 2
    /\ Len(calls) = 3
    /\ StrategyFailed
    /\ calls[3].context = "Recent topics: equation; Primary subject focus: Mathematics; "
                          \o "Student prefers: problem_solving"

\* the interactions of the log that have subject s
SubjectCount(s) == Cardinality({i \in 1..Len(interactions) : interactions[i].subject = s})

\* where subject s first appears in the log
FirstAppearance(s) ==
    CHOOSE i \in 1..Len(interactions) :
        /\ interactions[i].subject = s
        /\ \A j \in 1..(i - 1) : interactions[j].subject # s

\* how a span of d whole seconds is written
DurationText(d) ==
    LET whole_minutes == (d - (d % 60)) \div 60
        whole_hours == (d - (d % 3600)) \div 3600
    IN  IF d <= 59 THEN ToString(d) \o " seconds"
        ELSE IF d <= 3599 THEN ToString(whole_minutes) \o " minutes"
        ELSE ToString(whole_hours) \o "h " \o ToString(whole_minutes - 60 * whole_hours) \o "m"

\* C18: with a non-empty log the summary reports the number of retained
\* interactions (at most 50), the time between the first and the last of them
\* (0 seconds for a single one), the number of distinct topics of the whole
\* log, the subject with the highest count in the whole log (on a tie the one
\* that appears first), and the difficulty of the latest interaction.
C18_SummaryOfWholeLog ==
    Len(interactions) >= 1 =>
        LET n == Len(interactions)
            subjects == {interactions[i].subject : i \in 1..n}
            most_discussed ==
                CHOOSE s \in subjects :
                    \A t \in subjects \ {s} :
                        \/ SubjectCount(t) < SubjectCount(s)
                        \/ /\ SubjectCount(t) = SubjectCount(s)
                           /\ FirstAppearance(s) < FirstAppearance(t)
            distinct_topics == UNION {SetOf(interactions[i].topics) : i \in 1..n}
            span == IF n = 1 THEN 0
                    ELSE interactions[n].timestamp - interactions[1].timestamp
        IN  /\ n <= 50
            /\ get_interaction_summary(interactions) =
                   "Total interactions: " \o ToString(n)
                   \o "; Session duration: " \o DurationText(span)
                   \o "; Topics explored: " \o ToString(Cardinality(distinct_topics))
                   \o " unique topics"
                   \o "; Most discussed subject: " \o most_discussed
                   \o "; Recent difficulty level: " \o interactions[n].difficulty

\* 55 interactions were added and 50 are retained; two subjects have 25 each,
\* the one that appears first in the retained log is not the one that was
\* added first, and the retained span is more than an hour
C18_Witness ==
    /\ added = 55
    /\ Len(interactions) = 50
    /\ Len(feed) = 2
    /\ hist[1].subject # hist[2].subject
    /\ interactions[1].subject = hist[2].subject
    /\ interactions[50].timestamp - interactions[1].timestamp > 3600

\* C19: get_learning_context and get_interaction_summary never raise; when the
\* stored memory is missing or inconsistent (no interaction list or None in
\* its place, a latest entry that is no record or has no fields) they return
\* their fallback strings, on a sound memory they return the regular text,
\* and they leave the memory as it is.
C19_ReadsNeverRaise ==
    [][probe' # probe =>
          /\ UNCHANGED <<interactions, learning_patterns, damage>>
          /\ ~probe'.raised
          /\ probe'.result # None
          /\ probe'.op = "get_learning_context" =>
                /\ damage # "none"
                      => probe'.result = <<"Unable to retrieve learning context.">>
                /\ damage = "none" =>
                      \E topic_order \in TopicOrders :
                          probe'.result = <<get_learning_context(interactions,
                                                learning_patterns, topic_order)>>
          /\ probe'.op = "get_interaction_summary" =>
                /\ damage # "none"
                      => probe'.result = <<"Unable to generate interaction summary.">>
                /\ damage = "none" =>
                      probe'.result = <<get_interaction_summary(interactions)>>
    ]_vars

-----------------------------------------------------------------------------
(* Properties of the annotators *)

\* the positions in the scan order of the keywords that occur in the
\* lower-cased query
MatchingKeywords(query) ==
    {i \in 1..Len(all_keywords) : Contains(all_keywords[i], Lower(query))}

\* C20: _extract_topics returns at most 3 keywords of the vocabulary, each a
\* substring of the lower-cased query, none twice: the first 3 matching
\* keywords in the scan order math, science, language, history.
C20_FirstThreeInScanOrder ==
    probe.op = "_extract_topics" =>
        LET topics == probe.result[1]
            matching == MatchingKeywords(probe.arg)
        IN  /\ Len(topics) <= 3
            /\ Len(topics) = Min(3, Cardinality(matching))
            /\ \A k \in 1..Len(topics) :
                  /\ \E i \in matching :
                        /\ topics[k] = all_keywords[i]
                        /\ Cardinality({j \in matching : j < i}) = k - 1
                  /\ Contains(topics[k], Lower(probe.arg))
                  /\ \A l \in 1..Len(topics) : l # k => topics[l] # topics[k]
            /\ all_keywords = math_keywords \o science_keywords
                                  \o language_keywords \o history_keywords

\* four keywords occur in the query; "war", which comes first in the query
\* and last in the scan order, is the one left out
C20_Witness ==
    /\ probe.op = "_extract_topics"
    /\ probe.arg = "war Algebra geometry and calculus"
    /\ probe.result = << <<"algebra", "geometry", "calculus">> >>

\* the indicators of a list that occur in the lower-cased query
Found(indicators, query) ==
    {i \in 1..Len(indicators) : Contains(indicators[i], Lower(query))}

\* C21: _estimate_difficulty returns advanced when more advanced indicators
\* than basic ones are found, else beginner when a basic one is found, else
\* intermediate; equal nonzero counts give beginner, and so does "explain"
\* without an advanced indicator.
C21_DifficultyByCounts ==
    probe.op = "_estimate_difficulty" =>
        LET advanced_count == Cardinality(Found(advanced_indicators, probe.arg))
            basic_count == Cardinality(Found(basic_indicators, probe.arg))
            difficulty == probe.result[1]
        IN  /\ difficulty \in {"beginner", "intermediate", "advanced"}
            /\ difficulty = "advanced" <=> advanced_count > basic_count
            /\ difficulty = "beginner" <=>
                  (advanced_count <= basic_count /\ basic_count >= 1)
            /\ difficulty = "intermediate" <=> (advanced_count = 0 /\ basic_count = 0)
            /\ (advanced_count = basic_count /\ basic_count > 0) => difficulty = "beginner"
            /\ (Contains("explain", Lower(probe.arg)) /\ advanced_count = 0)
                  => difficulty = "beginner"

\* one advanced and one basic indicator: the tie is beginner
C21_Witness ==
    /\ probe.op = "_estimate_difficulty"
    /\ probe.arg = "Analyze Explain"
    /\ probe.result = <<"beginner">>

CellularQuery == "Explain how cellular respiration works"

\* C22, as stated: the query "Explain how cellular respiration works" is
\* intermediate, with no difficulty indicator matching it.
C22_CellularIsIntermediate ==
    (probe.op = "_estimate_difficulty" /\ probe.arg = CellularQuery) =>
        /\ probe.result = <<"intermediate">>
        /\ Found(advanced_indicators, probe.arg) = {}
        /\ Found(basic_indicators, probe.arg) = {}

\* C22, amended: the query "Explain how cellular respiration works" is
\* beginner: the basic indicator "explain" matches it and nothing else does.
C22_CellularIsBeginner ==
    (probe.op = "_estimate_difficulty" /\ probe.arg = CellularQuery) =>
        /\ probe.result = <<"beginner">>
        /\ Found(advanced_indicators, probe.arg) = {}
        /\ Contains("explain", Lower(probe.arg))
        /\ \A i \in Found(basic_indicators, probe.arg) : basic_indicators[i] = "explain"

C22_Witness ==
    /\ probe.op = "_estimate_difficulty"
    /\ probe.arg = CellularQuery
    /\ probe.result = <<"beginner">>

\* the number of keywords of the i-th subject that occur in the query,
\* whatever the case of the letters
SubjectHits(i, query) ==
    Cardinality({k \in 1..Len(subject_keywords[i][2]) :
                    Contains(Lower(subject_keywords[i][2][k]), Lower(query))})

\* C23: _identify_subject returns the subject with the most keyword hits in
\* the query, the earliest such subject in the order of the list, and
\* "General" exactly when no keyword of any subject occurs in the query.
C23_SubjectWithMostHits ==
    probe.op = "_identify_subject" =>
        LET query == probe.arg
            subject == probe.result[1]
            n == Len(subject_keywords)
        IN  IF \A i \in 1..n : SubjectHits(i, query) = 0
            THEN subject = "General"
            ELSE \E i \in 1..n :
                    /\ subject = subject_keywords[i][1]
                    /\ \A j \in 1..n : SubjectHits(j, query) <= SubjectHits(i, query)
                    /\ \A j \in 1..(i - 1) : SubjectHits(j, query) < SubjectHits(i, query)

\* the categories in the order in which they are tested, with their keywords
question_types ==
    << <<"problem_solving", {"solve", "calculate", "find", "compute"}>>,
       <<"conceptual", {"explain", "what is", "how does", "why"}>>,
       <<"analytical", {"analyze", "compare", "evaluate", "discuss"}>>,
       <<"assistance", {"help", "check", "review", "feedback"}>> >>

\* the i-th category has a keyword in the lower-cased query
TypeMatches(i, query) ==
    \E word \in question_types[i][2] : Contains(word, Lower(query))

\* C24: _classify_question_type returns the first category, in the order
\* problem_solving, conceptual, analytical, assistance, that has a keyword in
\* the query, and "general" when none has; a query with a problem_solving and
\* a conceptual keyword is problem_solving.
C24_FirstMatchingType ==
    probe.op = "_classify_question_type" =>
        LET query == probe.arg
            question_type == probe.result[1]
        IN  /\ \A i \in 1..Len(question_types) :
                  question_type = question_types[i][1] <=>
                      (TypeMatches(i, query) /\ \A j \in 1..(i - 1) : ~TypeMatches(j, query))
            /\ question_type = "general" <=>
                  \A i \in 1..Len(question_types) : ~TypeMatches(i, query)
            /\ (TypeMatches(1, query) /\ TypeMatches(2, query))
                  => question_type = "problem_solving"

\* the conceptual keyword comes first in the query, the problem_solving
\* keyword decides
C24_Witness ==
    /\ probe.op = "_classify_question_type"
    /\ probe.arg = "Explain Solve"
    /\ probe.result = <<"problem_solving">>

-----------------------------------------------------------------------------
(* Properties of the router's requests *)

\* C25: the tool names the classification request offers are the registry:
\* each of the 18 registry keys is listed, and every tool listed is a
\* registry key.
C25_OfferedIsRegistry ==
    \A i \in 1..Len(calls) :
        calls[i].purpose = "classification" =>
            /\ Cardinality(ToolNames) = 18
            /\ \A name \in ToolNames : name \in SetOf(calls[i].offered)
            /\ \A name \in SetOf(calls[i].offered) : name \in ToolNames

\* C26: the context does not influence a strategy: invoked on the same query
\* and profile with two different contexts, a registry strategy sends the
\* same request, and with the same reply returns the same text.
C26_ContextIgnored ==
    probe.op = "strategy" =>
        /\ feed[1].contexts[1] # feed[1].contexts[2]
        /\ Len(calls) = 2 => calls[1] = calls[2]
        /\ \A k \in 1..Len(probe.result) : probe.result[k].request = calls[k]
        /\ Len(probe.result) = 2 =>
              /\ probe.result[1].request = probe.result[2].request
              /\ probe.result[1].output = probe.result[2].output
              /\ probe.result[1].raised = probe.result[2].raised

\* study_schedule, the strategy that reads the most of the profile, has
\* answered two contexts alike
C26_Witness ==
    /\ probe.op = "strategy"
    /\ probe.arg = "study_schedule"
    /\ Len(probe.result) = 2
    /\ feed[1].contexts[1] # feed[1].contexts[2]
    /\ feed[1].profile.preferred_subjects # <<>>
    /\ probe.result[1].output # None
    /\ probe.result[1].output = probe.result[2].output

\* C27: when the classification selects a registry tool and the strategy's
\* call fails, the routing returns None and the general call is issued; the
\* user sees the generated text or the error message of the general call,
\* never the failure of the strategy.
C27_StrategyFailureFallsBack ==
    StrategyFailed =>
        /\ RegistryHit
        /\ turn.tool_response = None
        /\ invoked[1].output = None
        /\ pc \in {"general", "responded", "done"}
        /\ Len(calls) = 3
        /\ calls[3] = GeneralRequest(turn.query, profile, turn.learning_context)
        /\ pc = "general" => turn.response = None
        /\ pc \in {"responded", "done"} =>
              /\ Len(replies) = 3
              /\ turn.response =
                    <<IF replies[3].ok THEN replies[3].text ELSE ErrorMessages[replies[3].text]>>
              /\ messages[Len(messages)] =
                    [role |-> "assistant", content |-> turn.response[1]]
              /\ (replies[3].ok \/ FailureKind[replies[3].text] # FailureKind[replies[2].text])
                    => turn.response[1] # ErrorMessages[replies[2].text]
              /\ (FailureKind[replies[2].text] = "other" /\ replies[3].text # replies[2].text)
                    => ~Contains(replies[2].text, turn.response[1])

\* the strategy's call hit the quota, the general call answered: the turn
\* shows the generated text
C27_Witness ==
    /\ pc = "responded"
    /\ StrategyFailed
    /\ replies[2].text = "You exceeded your current quota"
    /\ replies[3].ok
    /\ turn.response = <<"Isolate x: x = 3.">>
    /\ turn.tool_response = None

-----------------------------------------------------------------------------
(* Properties of the application's frame *)

\* the step is a press of the Clear Conversation button
ClearConversationPressed ==
    /\ quick'.action = "clear_conversation"
    /\ quick'.runs = quick.runs + 1

NoInteractions == "No previous learning interactions in this session."

\* what get_learning_context returns in this state
ContextsNow ==
    {get_learning_context(interactions, learning_patterns, topic_order) :
        topic_order \in Orders(SetOf(recent_topics(interactions)))}

\* C28: Clear Conversation empties the messages and leaves the interaction log
\* and the learning patterns as they are, so that the context read afterwards
\* still reflects the interactions recorded before; no action of the user
\* invokes clear_memory.
C28_ClearConversationKeepsMemory ==
    [][/\ ClearConversationPressed =>
            /\ messages' = <<>>
            /\ interactions' = interactions
            /\ learning_patterns' = learning_patterns
       /\ (pc = "idle" /\ pc' = "classify") =>
            /\ turn'.learning_context \in ContextsNow
            /\ Len(interactions) >= 1 => turn'.learning_context # NoInteractions
       /\ last_op'.op # "clear_memory"
       /\ Len(interactions') >= Len(interactions)
       /\ added' >= added
       /\ DOMAIN learning_patterns \subseteq DOMAIN learning_patterns']_vars

\* a turn was recorded, the conversation was cleared, and the next prompt is
\* in: the only message is that prompt, the context still tells of the turn
\* before
C28_Witness ==
    /\ pc = "classify"
    /\ quick.action = "clear_conversation"
    /\ Len(messages) = 1
    /\ Len(interactions) = 1
    /\ turn.learning_context =
          "Recent topics: equation; Primary subject focus: Mathematics; "
          \o "Student prefers: problem_solving"

\* the memory store
MemoryStore == <<interactions, learning_patterns>>

\* C29: the interaction log and the learning patterns are changed by
\* add_interaction and clear_memory only: the routing step, the strategies,
\* the general generation, the read accessors and the four on-demand actions,
\* failing or not, leave them as they are.
C29_OnlyAddAndClearChangeMemory ==
    [][/\ MemoryStore' # MemoryStore =>
            \/ /\ pc = "responded" /\ pc' = "done"
               /\ last_op'.op = "add_interaction"
               /\ added' = added + 1
            \/ /\ last_op'.op = "clear_memory"
               /\ interactions' = <<>> /\ learning_patterns' = EmptyDict
       /\ (pc = "idle" /\ pc' = "classify") => MemoryStore' = MemoryStore
       /\ pc \in {"classify", "strategy", "general"} => MemoryStore' = MemoryStore
       /\ (pc = "quick" \/ pc' = "quick") => MemoryStore' = MemoryStore
       /\ probe' # probe => MemoryStore' = MemoryStore
       /\ quick' # quick => MemoryStore' = MemoryStore]_vars

\* a turn was recorded, the progress report then failed and the statistics
\* were read: the log still holds the turn
C29_Witness ==
    /\ Len(interactions) = 1
    /\ Len(invoked) = 0
    /\ quick.action = "show_progress_report"
    /\ quick.shown = "error"
    /\ probe.op = "get_subject_statistics"
    /\ probe.result = <<get_subject_statistics(interactions)>>
    /\ probe.result # <<get_subject_statistics(<<>>)>>

\* the names _identify_subject can return
SubjectNames == {subject_keywords[i][1] : i \in 1..Len(subject_keywords)} \cup {"General"}

\* C30: once an interaction is in the log, every stored interaction has a
\* non-empty subject, so the context always has its "Primary subject focus"
\* part and is never the sentence "Beginning of learning session.".
C30_SubjectAlwaysPresent ==
    Len(interactions) >= 1 =>
        /\ \A i \in 1..Len(interactions) :
              /\ interactions[i].subject # ""
              /\ interactions[i].subject \in SubjectNames
        /\ \A topic_order \in TopicOrders :
              LET ctx == get_learning_context(interactions, learning_patterns, topic_order)
                  topics_part == IF topic_order = <<>> THEN ""
                                 ELSE "Recent topics: " \o Join(topic_order, ", ") \o "; "
              IN  /\ StartsWith(topics_part \o "Primary subject focus: ", ctx)
                  /\ ctx # "Beginning of learning session."

\* the only interaction has no topic and no keyword of any subject: its
\* subject is General, and the context starts with it
C30_Witness ==
    /\ Len(interactions) = 1
    /\ interactions[1].topics = <<>>
    /\ interactions[1].subject = "General"
    /\ get_learning_context(interactions, learning_patterns, <<>>)
           = "Primary subject focus: General; Student prefers: analytical"

====
